---- MODULE Spec2Model ----
(***************************************************************************)
(* A model of ue_circular_dep_seeker (src/src/lib.rs): find_rec_deps       *)
(* builds the module index from the CMake descriptor, parses the entry     *)
(* file, and walks the lazily materialised include tree with a single      *)
(* "current" pointer, recording every root-to-child path that repeats a    *)
(* file; it then writes the report and the run-memory file.  The call is   *)
(* made by the StartAlgo message of the application (src/src/main.rs).     *)
(*                                                                         *)
(* Strings are sequences of one-character strings, so that contains,      *)
(* rfind, replace, split and trim are computed as the Rust code computes   *)
(* them.  Rc<RefCell<FileInfo>> is an index into Project.files and         *)
(* Rc<RefCell<Node>> an index into the heap of nodes: two references are   *)
(* the same object exactly when the indices are equal.                     *)
(***************************************************************************)
EXTENDS Naturals, Sequences, FiniteSets, TLC

VARIABLES
    world,            \* the inputs of the run: project_path, entry_point, fs (the disk)
    model,            \* AppModel: the three paths and was_successful, <<>> for None
    written,          \* the files find_rec_deps writes: output and cache, <<>> while absent
                      \* (the cache file may be there from an earlier run)
    pending,          \* the keys of recursive_paths the report loop has not reached yet
    returned,         \* what AppModel::update did: message logged, value returned
    pc,               \* position inside find_rec_deps
    err,              \* the error find_rec_deps returned ("none" while it has not)
    modules,          \* Project.modules
    files,            \* Project.files
    nodes,            \* every Node created so far
    current,          \* Node::traverse's `current` (0 before the traversal)
    recursive_paths,  \* Node::traverse's `recursive_paths`
    calls,            \* history: every Project::get_file call made so far
    last              \* history: the branch the last loop iteration took, and whether
                      \* the number of iterations so far is odd

vars == <<world, model, written, pending, returned, pc, err, modules, files, nodes, current, recursive_paths, calls, last>>

(***************************************************************************)
(* String primitives (std::str)                                            *)
(***************************************************************************)

\* s[i..] starts with sub
StartsAt(s, sub, i) ==
    /\ i + Len(sub) - 1 <= Len(s)
    /\ SubSeq(s, i, i + Len(sub) - 1) = sub

\* str::contains(&str)
Contains(s, sub) == \E i \in 1..(Len(s) + 1) : StartsAt(s, sub, i)

\* str::rfind(&str): the 1-based position of the last match, 0 for None
RFind(s, sub) ==
    LET hits == {i \in 1..(Len(s) + 1) : StartsAt(s, sub, i)}
    IN  IF hits = {} THEN 0 ELSE CHOOSE i \in hits : \A j \in hits : j <= i

RECURSIVE ReplaceFrom(_, _, _, _)
ReplaceFrom(s, from, to, i) ==
    IF i > Len(s) THEN <<>>
    ELSE IF StartsAt(s, from, i)
         THEN to \o ReplaceFrom(s, from, to, i + Len(from))
         ELSE <<s[i]>> \o ReplaceFrom(s, from, to, i + 1)

\* str::replace(from, to) for a non-empty pattern: every non-overlapping match, left to right
Replace(s, from, to) == ReplaceFrom(s, from, to, 1)

\* str::split(c).last(): the text after the last c (the whole string without any c)
SplitLast(s, c) ==
    LET hits == {i \in 1..Len(s) : s[i] = c}
        k == IF hits = {} THEN 0 ELSE CHOOSE i \in hits : \A j \in hits : j <= i
    IN  SubSeq(s, k + 1, Len(s))

\* The characters of the model are those of ASCII, those from U+0080 to U+00FF and
\* U+1680; a string literal cannot hold a character from U+2000 on.

\* char::is_whitespace on those characters: U+0009 to U+000D, U+0020, U+0085, U+00A0
\* and U+1680 (U+2000 to U+200A, U+2028, U+2029, U+202F, U+205F and U+3000 are white
\* space too and are no characters of the model)
WhiteSpace == {" ", "\t", "\n", "", "\f", "\r", "", " ", " "}

\* the characters UTF-8 encodes in two bytes (U+0080 to U+00FF) and in three (U+1680)
TWO_BYTE_CHARS ==
    {"", "", "", "", "", "", "", "", "", "", "", "", "", "", "", "",
     "", "", "", "", "", "", "", "", "", "", "", "", "", "", "", "",
     " ", "¡", "¢", "£", "¤", "¥", "¦", "§", "¨", "©", "ª", "«", "¬", "­", "®", "¯",
     "°", "±", "²", "³", "´", "µ", "¶", "·", "¸", "¹", "º", "»", "¼", "½", "¾", "¿",
     "À", "Á", "Â", "Ã", "Ä", "Å", "Æ", "Ç", "È", "É", "Ê", "Ë", "Ì", "Í", "Î", "Ï",
     "Ð", "Ñ", "Ò", "Ó", "Ô", "Õ", "Ö", "×", "Ø", "Ù", "Ú", "Û", "Ü", "Ý", "Þ", "ß",
     "à", "á", "â", "ã", "ä", "å", "æ", "ç", "è", "é", "ê", "ë", "ì", "í", "î", "ï",
     "ð", "ñ", "ò", "ó", "ô", "õ", "ö", "÷", "ø", "ù", "ú", "û", "ü", "ý", "þ", "ÿ"}
THREE_BYTE_CHARS == {" "}

\* bytes of a file that are no UTF-8, as one character: a read of them is an error
INVALID_UTF8 == "<ff>"

\* char::len_utf8
Utf8Len(c) == IF c \in THREE_BYTE_CHARS THEN 3 ELSE IF c \in TWO_BYTE_CHARS THEN 2 ELSE 1

\* str::len(): the number of bytes
RECURSIVE ByteLen(_)
ByteLen(s) == IF s = <<>> THEN 0 ELSE Utf8Len(Head(s)) + ByteLen(Tail(s))

\* the first n bytes of the text: its characters as far as they fit, and the bytes of a
\* character cut in two, which are no UTF-8
RECURSIVE BytePrefix(_, _)
BytePrefix(text, n) ==
    IF n = 0 \/ text = <<>> THEN <<>>
    ELSE IF Utf8Len(Head(text)) > n THEN <<INVALID_UTF8>>
    ELSE <<Head(text)>> \o BytePrefix(Tail(text), n - Utf8Len(Head(text)))

\* str::split(c): the pieces between the occurrences of c
RECURSIVE Split(_, _)
Split(s, c) ==
    LET hits == {i \in 1..Len(s) : s[i] = c}
    IN  IF hits = {} THEN <<s>>
        ELSE LET k == CHOOSE i \in hits : \A j \in hits : i <= j
             IN  <<SubSeq(s, 1, k - 1)>> \o Split(SubSeq(s, k + 1, Len(s)), c)

\* str::trim()
Trim(s) ==
    LET solid == {i \in 1..Len(s) : s[i] \notin WhiteSpace}
    IN  IF solid = {} THEN <<>>
        ELSE SubSeq(s, CHOOSE i \in solid : \A j \in solid : i <= j,
                       CHOOSE i \in solid : \A j \in solid : j <= i)

(***************************************************************************)
(* String literals of the program                                          *)
(***************************************************************************)
STR_INCLUDE == <<"#","i","n","c","l","u","d","e">>
STR_GENERATED == <<".","g","e","n","e","r","a","t","e","d",".">>
STR_GEN == <<".","g","e","n",".">>
STR_ENGINE == <<"E","n","g","i","n","e","/">>
STR_PUBLIC == <<"/","P","u","b","l","i","c">>
STR_PRIVATE == <<"/","P","r","i","v","a","t","e">>
STR_INTERMEDIATE == <<"I","n","t","e","r","m","e","d","i","a","t","e">>
STR_CMAKELISTS == <<"/","C","M","a","k","e","L","i","s","t","s",".","t","x","t">>
STR_INCLUDE_OPEN == <<"i","n","c","l","u","d","e","(">>
STR_INCLUDE_OPEN_Q == <<"i","n","c","l","u","d","e","(","\"">>
STR_CLOSE_Q == <<"\"",")">>
STR_INCLUDES == <<"i","n","c","l","u","d","e","s">>

(***************************************************************************)
(* file_info::FileInfo                                                     *)
(***************************************************************************)

\* the match on file_type_str
FileTypeOf(file_type_str) ==
    IF file_type_str \in {<<"h">>, <<"h","p","p">>} THEN "Header"
    ELSE IF file_type_str \in {<<"c">>, <<"c","p","p">>} THEN "Source"
    ELSE IF file_type_str = <<"i","n","l">> THEN "Inline"
    ELSE "Unsupported"

\* a loop body that skips the lines with ".generated." only
IncludeOfLineGenKept(line) ==
    IF Contains(line, STR_INCLUDE)
    THEN IF Contains(line, STR_GENERATED)
         THEN <<>>
         ELSE <<Replace(SplitLast(Trim(line), " "), <<"\"">>, <<>>)>>
    ELSE <<>>

\* the body of the `for mut line in file_lines` loop for one line: <<token>> or <<>>
IncludeOfLine(line) ==
    IF Contains(line, STR_INCLUDE)
    THEN IF Contains(line, STR_GENERATED) \/ Contains(line, STR_GEN)
         THEN <<>>
         ELSE <<Replace(SplitLast(Trim(line), " "), <<"\"">>, <<>>)>>
    ELSE <<>>

RECURSIVE ExtractIncludes(_)
ExtractIncludes(lines) ==
    IF lines = <<>> THEN <<>>
    ELSE IncludeOfLine(Head(lines)) \o ExtractIncludes(Tail(lines))

\* modules.iter().find(..): the first match instead of the last
FindModuleFirst(mods, abs_path) ==
    LET hits == {i \in 1..Len(mods) : Contains(abs_path, mods[i].name)}
    IN  IF hits = {} THEN 0 ELSE CHOOSE i \in hits : \A j \in hits : i <= j

\* modules.iter().rfind(|m| abs_path.contains(m)): the index of the last match, 0 for None
FindModule(mods, abs_path) ==
    LET hits == {i \in 1..Len(mods) : Contains(abs_path, mods[i].name)}
    IN  IF hits = {} THEN 0 ELSE CHOOSE i \in hits : \A j \in hits : j <= i

\* a record that is born processed
NewProcessedTrue == TRUE

\* the value of `processed` in the record FileInfo::create returns
NewProcessed == FALSE

\* The disk is a function from the absolute paths of its files, written without ".",
\* ".." and "//", to what they hold: the lines of a regular file, or one of three
\* things no list of lines is.  The folders of the disk are the paths above its files,
\* "/" among them, and the paths given as folders.
\* a path File::open refuses (a socket, a file without read permission)
OPEN_FAILS == << <<"ENXIO">> >>
\* a folder: File::open opens it and every read fails
READ_FAILS == << <<"EISDIR">> >>
\* a FIFO nobody writes to: File::open does not return
OPEN_HANGS == << <<"FIFO">> >>

\* the working directory of the process, as the names from "/" down to it
CWD == <<>>

\* the absolute path made of the names
RECURSIVE PathOf(_)
PathOf(names) == IF names = <<>> THEN <<>> ELSE <<"/">> \o Head(names) \o PathOf(Tail(names))

\* what the entry of the disk at the path is: "dir", "file", "refused" or "fifo"
KindOfKey(fs, key) ==
    IF fs[key] = READ_FAILS THEN "dir"
    ELSE IF fs[key] = OPEN_FAILS THEN "refused"
    ELSE IF fs[key] = OPEN_HANGS THEN "fifo"
    ELSE "file"

\* what the disk holds under the names: "dir", "file", "refused", "fifo" or "none"; a
\* folder is there when the disk holds something below it
KindAt(fs, names) ==
    IF names = <<>> THEN "dir"
    ELSE CHOOSE out \in
             {IF p \in DOMAIN fs THEN KindOfKey(fs, p)
              ELSE IF \E k \in DOMAIN fs : StartsAt(k, p \o <<"/">>, 1) THEN "dir"
              ELSE "none" : p \in {PathOf(names)}} : TRUE

\* the walk along a path from the folder `at`, name by name as the system resolves it:
\* <<names>> of what the path leads to, <<>> when a name is missing or a name that is
\* no folder is walked through
RECURSIVE Walk(_, _, _)
Walk(fs, at, rest) ==
    IF rest = <<>> THEN <<at>>
    ELSE IF Head(rest) \in {<<>>, <<".">>} THEN Walk(fs, at, Tail(rest))
    ELSE IF Head(rest) = <<".", ".">>
    THEN Walk(fs, IF at = <<>> THEN <<>> ELSE SubSeq(at, 1, Len(at) - 1), Tail(rest))
    ELSE CHOOSE out \in
             {IF kind = "none" THEN <<>>
              ELSE IF kind # "dir" /\ Tail(rest) # <<>> THEN <<>>
              ELSE Walk(fs, Append(at, Head(rest)), Tail(rest)) :
                 kind \in {KindAt(fs, Append(at, Head(rest)))}} : TRUE

\* what the path leads to: from "/" when it starts with "/", from the working directory
\* otherwise; the empty path leads nowhere
Resolve(fs, path) ==
    IF path = <<>> THEN <<>>
    ELSE Walk(fs, IF path[1] = "/" THEN <<>> ELSE CWD, Split(path, "/"))

\* what the disk holds at the path
KindOfFile(fs, path) ==
    IF path \in DOMAIN fs THEN KindOfKey(fs, path)
    ELSE CHOOSE out \in
             {IF to = <<>> THEN "none" ELSE KindAt(fs, to[1]) :
                 to \in {Resolve(fs, path)}} : TRUE

\* Path::exists
Exists(fs, path) == KindOfFile(fs, path) # "none"

\* File::open returns Ok
Opens(fs, path) == KindOfFile(fs, path) \in {"file", "dir"}

\* File::open does not return
OpenHangs(fs, path) == KindOfFile(fs, path) = "fifo"

\* BufReader::lines().flatten() never ends: lines() yields the error of the read again
\* and again and flatten() skips it each time
NeverEnds(fs, path) == KindOfFile(fs, path) = "dir"

\* the line is no UTF-8: lines() yields an error for it and goes on to the next line
InvalidLine(line) == \E i \in 1..Len(line) : line[i] = INVALID_UTF8

\* BufReader::new(file).lines().flatten() over a regular file: its lines that are UTF-8
ReadLines(fs, path) ==
    LET IsValid(line) == ~InvalidLine(line)
    IN  SelectSeq(IF path \in DOMAIN fs THEN fs[path] ELSE fs[PathOf(Resolve(fs, path)[1])],
                  IsValid)

\* FileInfo::create: [ok |-> TRUE, info |-> the record] or [ok |-> FALSE, err |-> kind];
\* the kind "hang" stands for the call that does not return
FileInfoCreate(abs_path, mods, fs) ==
    IF OpenHangs(fs, abs_path) THEN [ok |-> FALSE, err |-> "hang"]
    ELSE IF ~Opens(fs, abs_path) THEN [ok |-> FALSE, err |-> "io"]
    ELSE LET file_name == SplitLast(abs_path, "/")
             file_type == FileTypeOf(SplitLast(file_name, "."))
             m == FindModule(mods, abs_path)
         IN  IF file_type = "Unsupported" THEN [ok |-> FALSE, err |-> "type"]
             ELSE IF NeverEnds(fs, abs_path) THEN [ok |-> FALSE, err |-> "hang"]
             ELSE IF m = 0 THEN [ok |-> FALSE, err |-> "module"]
             ELSE [ok |-> TRUE,
                   info |-> [abs_path |-> abs_path,
                             file_name |-> file_name,
                             module |-> mods[m].name,
                             file_type |-> file_type,
                             includes |-> ExtractIncludes(ReadLines(fs, abs_path)),
                             processed |-> NewProcessed]]

(***************************************************************************)
(* project::Project                                                        *)
(***************************************************************************)

\* one line of a secondary descriptor file: acc is the HashMap<String, HashSet<String>>
\* `modules` as a function from module name to its set of folders
ScanFolderLine(line, acc) ==
    LET stripped_ifl == Replace(line, <<" ">>, <<>>)
        inc_folder == Replace(Replace(Replace(stripped_ifl, <<"\"">>, <<>>),
                                      <<"\t">>, <<>>), <<"\n">>, <<>>)
        start_ind == RFind(inc_folder, STR_ENGINE)
        module == Replace(Replace(SubSeq(inc_folder, start_ind, Len(inc_folder)),
                                  STR_PUBLIC, <<>>), STR_PRIVATE, <<>>)
    IN  IF ~Contains(stripped_ifl, <<"\"">>) THEN [ok |-> TRUE, map |-> acc]
        ELSE IF Contains(inc_folder, STR_INTERMEDIATE) THEN [ok |-> TRUE, map |-> acc]
        ELSE IF start_ind = 0 THEN [ok |-> FALSE, map |-> acc]
        ELSE IF module \in DOMAIN acc
             THEN [ok |-> TRUE, map |-> [acc EXCEPT ![module] = @ \cup {inc_folder}]]
             ELSE [ok |-> TRUE, map |-> acc @@ (module :> {inc_folder})]

\* the `for include_cmake_file_line` loop: "none" or the error that ended it
RECURSIVE ScanFolders(_, _)
ScanFolders(lines, acc) ==
    IF lines = <<>> THEN [err |-> "none", map |-> acc]
    ELSE LET r == ScanFolderLine(Head(lines), acc)
         IN  IF r.ok THEN ScanFolders(Tail(lines), r.map)
             ELSE [err |-> "anchor", map |-> acc]

\* the `for cmake_lists_line` loop over the root descriptor: "none", the error that
\* ended it, or "hang" when the loop over a secondary file never ends
RECURSIVE ScanRoot(_, _, _)
ScanRoot(lines, fs, acc) ==
    IF lines = <<>> THEN [err |-> "none", map |-> acc]
    ELSE LET stripped_cll == Replace(Head(lines), <<" ">>, <<>>)
             include == Replace(Replace(stripped_cll, STR_INCLUDE_OPEN_Q, <<>>),
                                STR_CLOSE_Q, <<>>)
         IN  IF ~Contains(stripped_cll, STR_INCLUDE_OPEN) \/ ~Contains(include, STR_INCLUDES)
             THEN ScanRoot(Tail(lines), fs, acc)
             ELSE IF OpenHangs(fs, include) THEN [err |-> "hang", map |-> acc]
             ELSE IF ~Opens(fs, include) THEN [err |-> "io", map |-> acc]
             ELSE IF NeverEnds(fs, include) THEN [err |-> "hang", map |-> acc]
             ELSE LET r == ScanFolders(ReadLines(fs, include), acc)
                  IN  IF r.err = "none" THEN ScanRoot(Tail(lines), fs, r.map) ELSE r

\* the HashMap built by Project::create, the error it returns, or "hang" when it does
\* not return
ProjectScan(project_path, fs) ==
    IF OpenHangs(fs, project_path \o STR_CMAKELISTS)
    THEN [err |-> "hang", map |-> <<>>]
    ELSE IF ~Opens(fs, project_path \o STR_CMAKELISTS)
    THEN [err |-> "io", map |-> <<>>]
    ELSE IF NeverEnds(fs, project_path \o STR_CMAKELISTS)
    THEN [err |-> "hang", map |-> <<>>]
    ELSE ScanRoot(ReadLines(fs, project_path \o STR_CMAKELISTS), fs, <<>>)

\* every order in which a HashSet/HashMap may yield the elements of S
Orders(S) ==
    {f \in [1..Cardinality(S) -> S] : \A i, j \in 1..Cardinality(S) : f[i] = f[j] => i = j}

\* res_modules without the sort_by: the HashMap's order as it comes
ModuleListsUnsorted(map) ==
    LET names == DOMAIN map
        folderOrders == {d \in [names -> UNION {Orders(map[n]) : n \in names}] :
                            \A n \in names : d[n] \in Orders(map[n])}
    IN  {[i \in 1..Len(o) |-> [name |-> o[i], include_paths |-> d[o[i]]]] :
            o \in Orders(names), d \in folderOrders}

\* res_modules after sort_by(len): HashMap and HashSet iterate in an unspecified
\* order and the sort is stable, so every order ascending in the number of bytes of the
\* name is possible
ModuleLists(map) ==
    LET names == DOMAIN map
        nameOrders == {o \in Orders(names) :
                          \A i, j \in 1..Len(o) : i < j => ByteLen(o[i]) <= ByteLen(o[j])}
        folderOrders == {d \in [names -> UNION {Orders(map[n]) : n \in names}] :
                            \A n \in names : d[n] \in Orders(map[n])}
    IN  {[i \in 1..Cardinality(names) |-> [name |-> o[i], include_paths |-> d[o[i]]]] :
            o \in nameOrders, d \in folderOrders}

\* Project::create_file_info
CreateFileInfo(fls, abs_path, mods, fs) ==
    LET r == FileInfoCreate(abs_path, mods, fs)
    IN  IF r.ok
        THEN [ok |-> TRUE, err |-> "none", files |-> Append(fls, r.info), file |-> Len(fls) + 1]
        ELSE [ok |-> FALSE, err |-> r.err, files |-> fls, file |-> 0]

\* format!("{}/{}", include_path, partial_path)
PathToFile(include_path, partial_path) == include_path \o <<"/">> \o partial_path

\* a get_file_in_module that never looks into the cache
GetFileInModuleUncached(fls, modl, partial_path, mods, fs) ==
    LET hits == {i \in 1..Len(modl.include_paths) :
                    Exists(fs, PathToFile(modl.include_paths[i], partial_path))}
    IN  IF hits = {} THEN [ok |-> FALSE, err |-> "not_found", files |-> fls, file |-> 0]
        ELSE CreateFileInfo(fls, PathToFile(modl.include_paths[CHOOSE i \in hits :
                                                \A j \in hits : i <= j], partial_path),
                            mods, fs)

\* a get_file_in_module whose cache hit hands the record out as new: unprocessed
GetFileInModuleResets(fls, modl, partial_path, mods, fs) ==
    LET hits == {i \in 1..Len(modl.include_paths) :
                    Exists(fs, PathToFile(modl.include_paths[i], partial_path))}
    IN  IF hits = {} THEN [ok |-> FALSE, err |-> "not_found", files |-> fls, file |-> 0]
        ELSE LET first == CHOOSE i \in hits : \A j \in hits : i <= j
                 path_to_file == PathToFile(modl.include_paths[first], partial_path)
                 cached == {f \in 1..Len(fls) : fls[f].abs_path = path_to_file}
             IN  IF cached # {}
                 THEN LET file == CHOOSE f \in cached : \A g \in cached : f <= g
                      IN  [ok |-> TRUE, err |-> "none",
                           files |-> [fls EXCEPT ![file].processed = FALSE],
                           file |-> file]
                 ELSE CreateFileInfo(fls, path_to_file, mods, fs)

\* Project::get_file_in_module
GetFileInModule(fls, modl, partial_path, mods, fs) ==
    LET hits == {i \in 1..Len(modl.include_paths) :
                    Exists(fs, PathToFile(modl.include_paths[i], partial_path))}
    IN  IF hits = {} THEN [ok |-> FALSE, err |-> "not_found", files |-> fls, file |-> 0]
        ELSE LET first == CHOOSE i \in hits : \A j \in hits : i <= j
                 path_to_file == PathToFile(modl.include_paths[first], partial_path)
                 cached == {f \in 1..Len(fls) : fls[f].abs_path = path_to_file}
             IN  IF cached # {}
                 THEN [ok |-> TRUE, err |-> "none", files |-> fls,
                       file |-> CHOOSE f \in cached : \A g \in cached : f <= g]
                 ELSE CreateFileInfo(fls, path_to_file, mods, fs)

\* Project::get_file: the modules are tried in order until get_file_in_module returns
\* Ok, or does not return
GetFile(fls, partial_path, entry_module, mods, fs) ==
    LET roots == {i \in 1..Len(mods) : mods[i].name = entry_module}
        root_module == IF roots = {} THEN <<>>
                       ELSE <<mods[CHOOSE i \in roots : \A j \in roots : i <= j]>>
        IsOther(m) == root_module = <<>> \/ m.name # root_module[1].name
        order == root_module \o SelectSeq(mods, IsOther)
        found == {i \in 1..Len(order) :
                     \E r \in {GetFileInModule(fls, order[i], partial_path, mods, fs)} :
                        r.ok \/ r.err = "hang"}
    IN  IF found = {} THEN [ok |-> FALSE, err |-> "not_found", files |-> fls, file |-> 0]
        ELSE GetFileInModule(fls, order[CHOOSE i \in found : \A j \in found : i <= j],
                             partial_path, mods, fs)

(***************************************************************************)
(* node::Node                                                              *)
(***************************************************************************)

\* Node::create that forgets to push the node's own file onto node_path of a child
NodeCreateParentPath(nds, file_info, prev) ==
    [file_info |-> file_info,
     prev |-> prev,
     children |-> <<>>,
     node_path |-> IF prev # 0 THEN nds[prev].node_path ELSE <<file_info>>]

\* a Node::create that does not extend the path of the parent
NodeCreateOwnFile(nds, file_info, prev) ==
    [file_info |-> file_info,
     prev |-> prev,
     children |-> <<>>,
     node_path |-> <<file_info>>]

\* Node::create
NodeCreate(nds, file_info, prev) ==
    [file_info |-> file_info,
     prev |-> prev,
     children |-> <<>>,
     node_path |-> (IF prev # 0 THEN nds[prev].node_path ELSE <<>>) \o <<file_info>>]

\* a closure whose child is put in front of the children collected so far
ResolveStepPrepend(include, module, node, st, r) ==
    LET call == [from |-> st.nodes[node].file_info, partial_path |-> include,
                 entry_module |-> module, before |-> Len(st.files), file |-> r.file]
    IN  IF r.ok
        THEN [files |-> r.files,
              nodes |-> Append(st.nodes, NodeCreate(st.nodes, r.file, node)),
              children |-> <<Len(st.nodes) + 1>> \o st.children,
              calls |-> Append(st.calls, call),
              hung |-> FALSE]
        ELSE IF r.err = "hang" THEN [st EXCEPT !.hung = TRUE]
        ELSE [st EXCEPT !.calls = Append(@, call)]

\* one call of the filter_map closure of create_node_children, given get_file's result r;
\* a get_file that does not return leaves the state as it is, marked `hung`
ResolveStep(include, module, node, st, r) ==
    LET call == [from |-> st.nodes[node].file_info, partial_path |-> include,
                 entry_module |-> module, before |-> Len(st.files), file |-> r.file]
    IN  IF r.ok
        THEN [files |-> r.files,
              nodes |-> Append(st.nodes, NodeCreate(st.nodes, r.file, node)),
              children |-> Append(st.children, Len(st.nodes) + 1),
              calls |-> Append(st.calls, call),
              hung |-> FALSE]
        ELSE IF r.err = "hang" THEN [st EXCEPT !.hung = TRUE]
        ELSE [st EXCEPT !.calls = Append(@, call)]

\* the filter_map of create_node_children over `includes`, in order, as far as the
\* calls return (each intermediate result is bound once: s is the state before the
\* call, r what get_file returns)
RECURSIVE ResolveIncludes(_, _, _, _, _, _)
ResolveIncludes(includes, module, node, st, mods, fs) ==
    IF includes = <<>> \/ st.hung THEN st
    ELSE CHOOSE out \in
            {ResolveIncludes(Tail(includes), module, node,
                             ResolveStep(Head(includes), module, node, s, r), mods, fs) :
                <<s, r>> \in {<<s0, GetFile(s0.files, Head(includes), module, mods, fs)>> :
                                 s0 \in {st}}} : TRUE

\* Node::create_node_children: the files, nodes and call history after it; when a call
\* of get_file does not return, `hung`, with the records and nodes made before that call
\* and no child list assigned
CreateNodeChildren(node, nds, fls, cls, mods, fs) ==
    LET file_info == fls[nds[node].file_info]
        st == ResolveIncludes(file_info.includes, file_info.module, node,
                              [files |-> fls, nodes |-> nds, children |-> <<>>, calls |-> cls,
                               hung |-> FALSE],
                              mods, fs)
    IN  [files |-> st.files,
         nodes |-> IF st.hung THEN st.nodes
                   ELSE [st.nodes EXCEPT ![node].children = st.children],
         calls |-> st.calls,
         hung |-> st.hung]

\* an is_recursive that takes a file some other node already holds for a repeat
IsRecursiveShared(nds, fls, node) ==
    \E other \in 1..Len(nds) : other # node /\ nds[other].file_info = nds[node].file_info

\* an is_recursive that takes every child for a repeat
IsRecursiveAlways(nds, fls, node) == TRUE

\* Node::is_recursive: !abs_paths.all_unique()
IsRecursive(nds, fls, node) ==
    LET node_path == nds[node].node_path
    IN  \E i, j \in 1..Len(node_path) :
            i < j /\ fls[node_path[i]].abs_path = fls[node_path[j]].abs_path

\* a key taken from the first element of node_path
RecursiveKeyFirst(nds, fls, node) == fls[nds[node].node_path[1]].file_name

\* the key is_recursive returns: the file name of the last element of node_path
RecursiveKey(nds, fls, node) ==
    fls[nds[node].node_path[Len(nds[node].node_path)]].file_name

\* a readable_path that stops at the parent
ReadablePathOfParent(nds, fls, node) ==
    [i \in 1..(Len(nds[node].node_path) - 1) |-> fls[nds[node].node_path[i]].file_name]

\* Node::readable_path
ReadablePath(nds, fls, node) ==
    [i \in 1..Len(nds[node].node_path) |-> fls[nds[node].node_path[i]].file_name]

\* a find that takes the first child, processed or not
FindFirstChild(nds, fls, children) ==
    IF children = <<>> THEN 0 ELSE children[1]

\* a find that takes the last unprocessed child
FindUnprocessedLast(nds, fls, children) ==
    LET open == {i \in 1..Len(children) : ~fls[nds[children[i]].file_info].processed}
    IN  IF open = {} THEN 0 ELSE children[CHOOSE i \in open : \A j \in open : i >= j]

\* current_children.iter().find(|child| !child.file_info.processed): the node, 0 for None
FindUnprocessed(nds, fls, children) ==
    LET open == {i \in 1..Len(children) : ~fls[nds[children[i]].file_info].processed}
    IN  IF open = {} THEN 0 ELSE children[CHOOSE i \in open : \A j \in open : i <= j]

\* an insert that puts a fresh set under the key whether the key is there or not
InsertPathFresh(rp, key, readable_path) ==
    IF key \in DOMAIN rp
    THEN [rp EXCEPT ![key] = {readable_path}]
    ELSE rp @@ (key :> {readable_path})

\* recursive_paths after the get_mut / insert of the terminus branch
InsertPath(rp, key, readable_path) ==
    IF key \in DOMAIN rp
    THEN [rp EXCEPT ![key] = @ \cup {readable_path}]
    ELSE rp @@ (key :> {readable_path})

(***************************************************************************)
(* The inputs: a project on disk and an entry point                        *)
(***************************************************************************)

\* the most #include lines the source files of a generated project hold together
MaxEdges == 4

\* the most #include lines of the entry file of a generated multi-module project
MaxLayoutIncludes == 2

PROJECT == <<"/","p">>
INCLUDES_FILE == <<"/","p","/","i","n","c","l","u","d","e","s">>
ROOT_LINE == <<"i","n","c","l","u","d","e","(","\"","/","p","/","i","n","c","l","u","d","e","s","\"",")">>
OTHER_LINE == <<"i","n","c","l","u","d","e","(","\"","/","p","/","o","t","h","e","r",".","c","m","a","k","e","\"",")">>
D1 == <<"/","p","/","E","n","g","i","n","e","/","R","/","P","u","b","l","i","c">>
D2 == <<"/","p","/","E","n","g","i","n","e","/","R","/","P","r","i","v","a","t","e">>
D3 == <<"/","p","/","E","n","g","i","n","e","/","R","/","C","/","P","u","b","l","i","c">>
D4 == <<"/","p","/","E","n","g","i","n","e","/","X","/","P","u","b","l","i","c">>
D_OTHER == <<"/","p","/","O","t","h","e","r","/","P","u","b","l","i","c">>
D_INTERMEDIATE == <<"/","p","/","E","n","g","i","n","e","/","I","n","t","e","r","m","e","d","i","a","t","e","/","P","u","b","l","i","c">>
D_TMP == <<"/","t","m","p">>
A_H == <<"A",".","h">>
B_H == <<"B",".","h">>
C_H == <<"C",".","h">>
D_H == <<"D",".","h">>
FOO_TXT == <<"F","o","o",".","t","x","t">>
NAMES == <<A_H, B_H, C_H, D_H>>

\* a line of the secondary descriptor naming a folder; a source line including a token
FolderLine(dir) == <<"\t", "\"">> \o dir \o <<"\"">>
IncludeLine(token) == STR_INCLUDE \o <<" ", "\"">> \o token \o <<"\"">>

\* the descriptor files of a project whose secondary file lists `dirs`
Cmake(dirs) ==
    ((PROJECT \o STR_CMAKELISTS) :> <<ROOT_LINE>>)
        @@ (INCLUDES_FILE :> [i \in 1..Len(dirs) |-> FolderLine(dirs[i])])

\* a source file at `path` including `tokens`, one per line
Source(path, tokens) == path :> [i \in 1..Len(tokens) |-> IncludeLine(tokens[i])]

RECURSIVE SumTo(_, _)
SumTo(cnt, n) == IF n = 0 THEN 0 ELSE cnt[n] + SumTo(cnt, n - 1)

\* One module, one folder, the files of NAMES in it: file i holds cnt[i] include
\* lines, whose tokens are, in file order, the names numbered by toks.
GraphWorld(cnt, toks) ==
    [project_path |-> PROJECT,
     entry_point |-> PathToFile(D1, NAMES[1]),
     fs |-> Cmake(<<D1>>)
            @@ [p \in {PathToFile(D1, NAMES[i]) : i \in 1..Len(NAMES)} |->
                   LET i == CHOOSE k \in 1..Len(NAMES) : PathToFile(D1, NAMES[k]) = p
                   IN  [k \in 1..cnt[i] |-> IncludeLine(NAMES[toks[SumTo(cnt, i - 1) + k]])]]]

\* the files of a graph project that the entry file (number 1) reaches through `seen`
RECURSIVE GraphReach(_, _, _)
GraphReach(cnt, toks, seen) ==
    LET more == seen \cup {toks[SumTo(cnt, i - 1) + k] : <<i, k>> \in
                              {<<i, k>> \in seen \X (1..Len(toks)) : k <= cnt[i]}}
    IN  IF more = seen THEN seen ELSE GraphReach(cnt, toks, more)

\* One project per include graph: a file the entry file does not reach is never opened
\* and is kept empty, and the files other than the entry file are numbered in the order
\* in which the include lines, read file by file, first mention them.
GraphCanonical(cnt, toks) ==
    /\ \A i \in 1..Len(NAMES) : cnt[i] > 0 => i \in GraphReach(cnt, toks, {1})
    /\ \A k \in DOMAIN toks :
          toks[k] > 2 => \E j \in 1..(k - 1) : toks[j] = toks[k] - 1

\* the numbers of include lines per file of the graph projects
GraphCounts == {c \in [1..Len(NAMES) -> 0..MaxEdges] : SumTo(c, Len(NAMES)) <= MaxEdges}

\* Three modules (Engine/R with two folders, Engine/R/C nested in its name, Engine/X),
\* the entry file A.h in `entry_dir`, B.h (which includes A.h) present in the folders
\* `bdirs` and Foo.txt in the folders `fdirs`.
LayoutWorld(entry_dir, tokens, bdirs, fdirs) ==
    [project_path |-> PROJECT,
     entry_point |-> PathToFile(entry_dir, A_H),
     fs |-> Cmake(<<D1, D2, D3, D4>>)
            @@ Source(PathToFile(entry_dir, A_H), tokens)
            @@ [p \in {PathToFile(d, B_H) : d \in bdirs} |-> <<IncludeLine(A_H)>>]
            @@ [p \in {PathToFile(d, FOO_TXT) : d \in fdirs} |-> <<>>]]

\* the include lists of the entry file of the multi-module projects
LayoutIncludes == UNION {[1..n -> {B_H, FOO_TXT}] : n \in 0..MaxLayoutIncludes}

\* Descriptors that fail or hold lines Project::create skips, and entry points that
\* cannot be parsed; where the entry file exists it includes itself.
DescriptorWorlds ==
    LET src == Source(PathToFile(D1, A_H), <<A_H>>)
        root == PROJECT \o STR_CMAKELISTS
        W(entry, f) == [project_path |-> PROJECT, entry_point |-> entry, fs |-> f]
    IN  {W(PathToFile(D1, A_H), src),
         W(PathToFile(D1, A_H), (root :> <<ROOT_LINE>>) @@ src),
         W(PathToFile(D1, A_H),
           (root :> <<OTHER_LINE, ROOT_LINE>>)
               @@ (INCLUDES_FILE :> <<FolderLine(D_INTERMEDIATE), D1, FolderLine(D1)>>)
               @@ src),
         W(PathToFile(D1, A_H), Cmake(<<D1, D_OTHER>>) @@ src),
         W(PathToFile(D1, A_H), Cmake(<<D1>>)),
         W(PathToFile(D_TMP, A_H), Cmake(<<D1, D3>>) @@ Source(PathToFile(D_TMP, A_H), <<A_H>>)),
         W(PathToFile(D_TMP, FOO_TXT),
           Cmake(<<D1>>) @@ Source(PathToFile(D_TMP, FOO_TXT), <<A_H>>)),
         W(PathToFile(D1, FOO_TXT), Cmake(<<D1>>) @@ Source(PathToFile(D1, FOO_TXT), <<>>))}

\* Two modules, Engine/R and Engine/R/C, each with a file named B.h: the entry file
\* A.h includes C.h and B.h; C.h, of Engine/R/C, includes the empty B.h next to it;
\* the B.h of Engine/R closes a cycle through `back`.
ClashWorld(back) ==
    [project_path |-> PROJECT,
     entry_point |-> PathToFile(D1, A_H),
     fs |-> Cmake(<<D1, D3>>)
            @@ Source(PathToFile(D1, A_H), <<C_H, B_H>>)
            @@ Source(PathToFile(D3, C_H), <<B_H>>)
            @@ Source(PathToFile(D3, B_H), <<>>)
            @@ Source(PathToFile(D1, B_H), <<back>>)]

ClashWorlds == {ClashWorld(back) : back \in {A_H, B_H}}

\* As ClashWorld, but both files named B.h include "B.h", which resolves to the file
\* itself in either module: two cycles of different length end at the name B.h.
TwinCycleWorld ==
    [project_path |-> PROJECT,
     entry_point |-> PathToFile(D1, A_H),
     fs |-> Cmake(<<D1, D3>>)
            @@ Source(PathToFile(D1, A_H), <<C_H, B_H>>)
            @@ Source(PathToFile(D3, C_H), <<B_H>>)
            @@ Source(PathToFile(D3, B_H), <<B_H>>)
            @@ Source(PathToFile(D1, B_H), <<B_H>>)]

\* the secondary descriptor lists a folder twice, between folders of other modules;
\* the entry file includes itself
RepeatedFolderWorld ==
    [project_path |-> PROJECT,
     entry_point |-> PathToFile(D1, A_H),
     fs |-> Cmake(<<D3, D1, D4, D1, D2>>) @@ Source(PathToFile(D1, A_H), <<A_H>>)]

D_MID == <<"/","p","/","E","n","g","i","n","e","/","R","/","P","u","b","l","i","c","/","S","u","b">>
D_TWICE == <<"/","p","/","E","n","g","i","n","e","/","E","n","g","i","n","e","/","Q","/","P","u","b","l","i","c">>

\* the secondary descriptor lists a folder below a Public folder and a folder with the
\* anchor twice in its path; the entry file includes itself
NestedFolderWorld ==
    [project_path |-> PROJECT,
     entry_point |-> PathToFile(D1, A_H),
     fs |-> Cmake(<<D1, D2, D_MID, D_TWICE>>) @@ Source(PathToFile(D1, A_H), <<A_H>>)]

\* a file name without a dot
H_NAME == <<"h">>

\* the entry file is named "h" and includes A.h, which includes "h"
NoDotWorld ==
    [project_path |-> PROJECT,
     entry_point |-> PathToFile(D1, H_NAME),
     fs |-> Cmake(<<D1>>)
            @@ Source(PathToFile(D1, H_NAME), <<A_H>>)
            @@ Source(PathToFile(D1, A_H), <<H_NAME>>)]

\* Projects with a path that is a folder, or that cannot be opened: the root descriptor,
\* the secondary descriptor, the entry point, a file the entry file includes after a
\* file without includes, a folder named Foo.txt, and a B.h in the Public folder of a
\* module that has a regular B.h in its Private folder; and with a FIFO in the place of
\* the root descriptor, the secondary descriptor, the entry point, an included Foo.txt;
\* and with the folder Public of the module as the entry point.
FolderWorlds ==
    LET src == Source(PathToFile(D1, A_H), <<A_H>>)
        root == PROJECT \o STR_CMAKELISTS
        W(f) == [project_path |-> PROJECT, entry_point |-> PathToFile(D1, A_H), fs |-> f]
    IN  {W((root :> READ_FAILS) @@ src),
         W((root :> OPEN_FAILS) @@ src),
         W((root :> <<ROOT_LINE>>) @@ (INCLUDES_FILE :> READ_FAILS) @@ src),
         W((root :> <<ROOT_LINE>>) @@ (INCLUDES_FILE :> OPEN_FAILS) @@ src),
         W(Cmake(<<D1>>) @@ (PathToFile(D1, A_H) :> READ_FAILS)),
         W(Cmake(<<D1>>) @@ (PathToFile(D1, A_H) :> OPEN_FAILS)),
         W(Cmake(<<D1>>)
             @@ Source(PathToFile(D1, A_H), <<C_H, B_H>>)
             @@ Source(PathToFile(D1, C_H), <<>>)
             @@ (PathToFile(D1, B_H) :> READ_FAILS)),
         W(Cmake(<<D1>>)
             @@ Source(PathToFile(D1, A_H), <<FOO_TXT, A_H>>)
             @@ (PathToFile(D1, FOO_TXT) :> READ_FAILS)),
         W(Cmake(<<D1, D2>>)
             @@ Source(PathToFile(D1, A_H), <<B_H>>)
             @@ (PathToFile(D1, B_H) :> OPEN_FAILS)
             @@ Source(PathToFile(D2, B_H), <<A_H>>)),
         W((root :> OPEN_HANGS) @@ src),
         W((root :> <<ROOT_LINE>>) @@ (INCLUDES_FILE :> OPEN_HANGS) @@ src),
         W(Cmake(<<D1>>) @@ (PathToFile(D1, A_H) :> OPEN_HANGS)),
         [project_path |-> PROJECT, entry_point |-> D1,
          fs |-> Cmake(<<D1>>) @@ Source(PathToFile(D1, A_H), <<>>)],
         W(Cmake(<<D1>>)
             @@ Source(PathToFile(D1, A_H), <<FOO_TXT, A_H>>)
             @@ (PathToFile(D1, FOO_TXT) :> OPEN_HANGS))}

\* include tokens that name a file of the folder by another spelling
DOT_A_H == <<".", "/">> \o A_H
DOT_B_H == <<".", "/">> \o B_H
UP_B_H == <<".", ".", "/", "P", "u", "b", "l", "i", "c", "/">> \o B_H

\* One module, one folder: the entry file A.h includes itself as "./A.h"; or it includes
\* B.h by the tokens of `tokens`, and B.h holds the lines `back`
AliasWorlds ==
    LET W(f) == [project_path |-> PROJECT, entry_point |-> PathToFile(D1, A_H), fs |-> f]
    IN  {W(Cmake(<<D1>>) @@ Source(PathToFile(D1, A_H), <<DOT_A_H>>))}
        \cup {W(Cmake(<<D1>>)
                  @@ Source(PathToFile(D1, A_H), tokens)
                  @@ Source(PathToFile(D1, B_H), back)) :
                 tokens \in {<<DOT_B_H>>, <<UP_B_H>>, <<B_H, DOT_B_H>>},
                 back \in {<<>>, <<A_H>>}}

D_ABC == <<"/","p","/","E","n","g","i","n","e","/","a","b","c","/","P","u","b","l","i","c">>
D_EE == <<"/","p","/","E","n","g","i","n","e","/","é","é","/","P","u","b","l","i","c">>
D_AB == <<"/","p","/","E","n","g","i","n","e","/","a","b","/","P","u","b","l","i","c">>
D_E == <<"/","p","/","E","n","g","i","n","e","/","é","/","P","u","b","l","i","c">>

\* Three modules, Engine/R and two whose names differ in bytes and in characters: the
\* entry file A.h of Engine/R includes B.h, which the folder `cyclic` holds including
\* A.h and the folder `empty` holds without a line
AccentWorld(cyclic, empty) ==
    [project_path |-> PROJECT,
     entry_point |-> PathToFile(D1, A_H),
     fs |-> Cmake(<<D1, cyclic, empty>>)
            @@ Source(PathToFile(D1, A_H), <<B_H>>)
            @@ Source(PathToFile(cyclic, B_H), <<A_H>>)
            @@ Source(PathToFile(empty, B_H), <<>>)]

AccentWorlds == {AccentWorld(D_ABC, D_EE), AccentWorld(D_EE, D_ABC), AccentWorld(D_AB, D_E)}

\* the most lines of the entry file of a project generated to exercise the line scan
MaxLines == 2

B_GENERATED_H == <<"B",".","g","e","n","e","r","a","t","e","d",".","h">>
B_GEN_H == <<"B",".","g","e","n",".","h">>

\* the kinds of source line: a quoted include, includes of generated headers, a line
\* without the directive, an indented angle-bracket include followed by blanks, an
\* include whose token follows a tab, an include between white space that is no blank,
\* and an include in a line that is no UTF-8
LineKinds ==
    {IncludeLine(B_H),
     IncludeLine(B_GENERATED_H),
     IncludeLine(B_GEN_H),
     <<"i","n","t"," ","x",";">>,
     <<"\t">> \o STR_INCLUDE \o <<" ","<","C",".","h",">"," "," ">>,
     STR_INCLUDE \o <<"\t","\"","C",".","h","\"">>,
     <<" ">> \o STR_INCLUDE \o <<" ","\"","B",".","h","\"","","\f",""," "," ">>,
     STR_INCLUDE \o <<" ","\"","C",".","h","\"",INVALID_UTF8>>}

\* One module, one folder: the entry file A.h holds `lines`; B.h, C.h and the two
\* generated headers exist and are empty.
LineWorld(lines) ==
    [project_path |-> PROJECT,
     entry_point |-> PathToFile(D1, A_H),
     fs |-> Cmake(<<D1>>)
            @@ (PathToFile(D1, A_H) :> lines)
            @@ [p \in {PathToFile(D1, n) : n \in {B_H, C_H, B_GENERATED_H, B_GEN_H}} |-> <<>>]]

\* the contents of the entry file of those projects
LineLists == UNION {[1..n -> LineKinds] : n \in 0..MaxLines}

(***************************************************************************)
(* The report and the run-memory file (find_rec_deps, after the traversal) *)
(***************************************************************************)

SEPARATOR == <<"-","-","-","-","-","-","-","-","-","-","-","-","-","-","-","-","-","-","-","-","-","-","-","-","-","-","-","-","-","-","-","-","-","-","-","-","-","-","-","-","-","-","-","-","-","-","-","-">>
STR_ARROW == <<"-",">">>
STR_COLON == <<":">>
CACHE_CONFIG_PATH == <<".","/",".","c","a","c","h","e">>

\* [String]::join(sep)
RECURSIVE Join(_, _)
Join(parts, sep) ==
    IF parts = <<>> THEN <<>>
    ELSE IF Len(parts) = 1 THEN parts[1]
    ELSE parts[1] \o sep \o Join(Tail(parts), sep)

\* the paths as the set yields them, without the sort
UnsortedPaths(paths) == Orders(paths)

\* paths.iter().sorted_by(len): the set is iterated in an unspecified order and the sort
\* is stable, so every order ascending in length is possible
SortedByLen(paths) ==
    {o \in Orders(paths) : \A i, j \in 1..Len(o) : i < j => Len(o[i]) <= Len(o[j])}

\* the lines one iteration of the report loop writes for a key and its ordered paths
ReportBlock(file_name, output_paths) ==
    <<SEPARATOR, file_name \o STR_COLON>>
        \o [i \in 1..Len(output_paths) |-> <<"\t">> \o Join(output_paths[i], STR_ARROW)]
        \o <<SEPARATOR>>

\* the bytes of a file written line by line, each line followed by "\n"
RECURSIVE Text(_)
Text(lines) == IF lines = <<>> THEN <<>> ELSE Head(lines) \o <<"\n">> \o Text(Tail(lines))

\* BufRead::lines: the text cut at every "\n", a "\r" before it dropped; what follows
\* the last "\n" is a line when it is not empty
RECURSIVE Lines(_)
Lines(text) ==
    IF text = <<>> THEN <<>>
    ELSE LET at == {i \in 1..Len(text) : text[i] = "\n"}
         IN  IF at = {} THEN <<text>>
             ELSE LET n == CHOOSE i \in at : \A j \in at : i <= j
                      line == SubSeq(text, 1, n - 1)
                  IN  <<IF line # <<>> /\ line[Len(line)] = "\r"
                        THEN SubSeq(line, 1, Len(line) - 1) ELSE line>>
                          \o Lines(SubSeq(text, n + 1, Len(text)))

\* the numbers of bytes after which a write_all that fails has stopped
WriteCuts == {0, 10, 60}

\* format!("{}\n{}\n{}", project_path, entry_point, output_file_path)
CacheText(project_path, entry_point, output_file_path) ==
    project_path \o <<"\n">> \o entry_point \o <<"\n">> \o output_file_path

\* the cache file find_rec_deps writes, as the lines a reader finds in it
CacheLines(project_path, entry_point, output_file_path) ==
    Lines(CacheText(project_path, entry_point, output_file_path))

(***************************************************************************)
(* main.rs: AppModel and the StartAlgo message                             *)
(***************************************************************************)

STR_PROJECT == <<"P","r","o","j","e","c","t">>
STR_ENTRY_POINT == <<"E","n","t","r","y"," ","P","o","i","n","t">>
STR_OUTPUT_FILE == <<"O","u","t","p","u","t"," ","F","i","l","e">>
STR_WAS_NOT_SET == <<" ","w","a","s"," ","n","o","t"," ","s","e","t","!">>
STR_WERE_NOT_SET == <<" ","w","e","r","e"," ","n","o","t"," ","s","e","t","!">>
STR_AMP == <<" ","&"," ">>

\* the output file of the runs, one with a line feed in its name, and a folder that
\* holds no project
OUTPUT_FILE == <<"/","p","/","o","u","t",".","t","x","t">>
OUTPUT_TWO_LINES == <<"/","p","/","o","u","t","\n","x",".","t","x","t">>
OTHER_PROJECT == <<"/","q">>

\* the inputs that are None, in the order all_paths pushes them
DoesntExist(m) ==
    (IF m.project_path = <<>> THEN <<STR_PROJECT>> ELSE <<>>)
        \o (IF m.entry_point = <<>> THEN <<STR_ENTRY_POINT>> ELSE <<>>)
        \o (IF m.output_file = <<>> THEN <<STR_OUTPUT_FILE>> ELSE <<>>)

\* an all_paths that does not look at output_file
AllPathsOutputUnchecked(m) ==
    IF m.project_path # <<>> /\ m.entry_point # <<>>
    THEN [ok |-> TRUE, message |-> <<>>]
    ELSE [ok |-> FALSE,
          message |-> IF Len(DoesntExist(m)) = 1
                      THEN <<DoesntExist(m)[1] \o STR_WAS_NOT_SET>>
                      ELSE <<Join(DoesntExist(m), STR_AMP) \o STR_WERE_NOT_SET>>]

\* AppModel::all_paths: (true, None) or (false, Some(message))
AllPaths(m) ==
    IF m.project_path # <<>> /\ m.entry_point # <<>> /\ m.output_file # <<>>
    THEN [ok |-> TRUE, message |-> <<>>]
    ELSE [ok |-> FALSE,
          message |-> IF Len(DoesntExist(m)) = 1
                      THEN <<DoesntExist(m)[1] \o STR_WAS_NOT_SET>>
                      ELSE <<Join(DoesntExist(m), STR_AMP) \o STR_WERE_NOT_SET>>]

\* AppModel::unwrap_all
UnwrapAll(m) ==
    [project_path |-> m.project_path[1],
     entry_point |-> m.entry_point[1],
     output_file_path |-> m.output_file[1]]

\* enum ArgPath
ArgPath == {"Project", "EntryPoint", "OutputFile"}

\* set_project_path / set_entry_point / set_output_file: value is <<text>> or <<>>
SetPath(m, path, value) ==
    IF path = "Project" THEN [m EXCEPT !.project_path = value]
    ELSE IF path = "EntryPoint" THEN [m EXCEPT !.entry_point = value]
    ELSE [m EXCEPT !.output_file = value]

\* the texts the user gives for an input of project w: the paths of the project, and
\* for some projects another root, another entry point, an output path with a line feed
PathStrings(w, path) ==
    IF path = "Project"
    THEN {w.project_path} \cup (IF w \in ClashWorlds THEN {OTHER_PROJECT} ELSE {})
    ELSE IF path = "EntryPoint"
    THEN {w.entry_point} \cup (IF w = TwinCycleWorld THEN {PathToFile(D1, B_H)} ELSE {})
    ELSE {OUTPUT_FILE} \cup (IF w = RepeatedFolderWorld THEN {OUTPUT_TWO_LINES} ELSE {})

\* AppModel::new: the fields are the first three lines of the cache file, None where
\* the file is absent or has fewer lines, or where the line is no UTF-8
AppModelNew(cache) ==
    LET line(i) == IF cache # <<>> /\ i <= Len(cache[1]) /\ ~InvalidLine(cache[1][i])
                   THEN <<cache[1][i]>> ELSE <<>>
    IN  [project_path |-> line(1),
         entry_point |-> line(2),
         output_file |-> line(3),
         was_successful |-> <<>>]

\* the cache file before the run: absent, left by an earlier run on another entry
\* point, or with a second line that is no UTF-8
StaleCaches(w) ==
    IF w = TwinCycleWorld
    THEN {<<>>,
          <<CacheLines(PROJECT, PathToFile(D1, B_H), OUTPUT_FILE)>>,
          <<CacheLines(PROJECT, <<INVALID_UTF8>>, OUTPUT_FILE)>>}
    ELSE {<<>>}

\* update has not returned yet
NotReturned == [kind |-> "none", message |-> <<>>, value |-> <<>>]

\* update has set was_successful and waits in MessageDialog::show_confirm
InDialog == [kind |-> "dialog", message |-> <<>>, value |-> <<>>]

\* update waits in the FileDialog of Choose(path)
InFileDialog(path) == [kind |-> "file_dialog", message |-> <<path>>, value |-> <<>>]

\* update has handled an Update or a Choose message and returned true
Updated == [kind |-> "update", message |-> <<>>, value |-> <<TRUE>>]

(***************************************************************************)
(* AppModel::update and find_rec_deps as a state machine                   *)
(***************************************************************************)

NoStep == [branch |-> "none", child |-> 0, materialised |-> FALSE, odd |-> FALSE]

Init ==
    /\ \/ \E cnt \in GraphCounts :
              \E toks \in [1..SumTo(cnt, Len(NAMES)) -> 1..Len(NAMES)] :
                 /\ GraphCanonical(cnt, toks)
                 /\ world = GraphWorld(cnt, toks)
       \/ \E e \in {D1, D3, D4}, t \in LayoutIncludes, b \in SUBSET {D1, D2, D3, D4},
             f \in SUBSET {D1, D3} :
                 world = LayoutWorld(e, t, b, f)
       \/ world \in DescriptorWorlds
       \/ world \in ClashWorlds
       \/ world = RepeatedFolderWorld
       \/ world = TwinCycleWorld
       \/ world = NestedFolderWorld
       \/ world = NoDotWorld
       \/ world \in FolderWorlds
       \/ world \in AliasWorlds
       \/ world \in AccentWorlds
       \/ \E lines \in LineLists : world = LineWorld(lines)
    /\ \E cache \in StaleCaches(world) :
          /\ written = [output |-> <<>>, cache |-> cache]
          /\ model = AppModelNew(cache)
    /\ pending = {}
    /\ returned = NotReturned
    /\ pc = "start_algo"
    /\ err = "none"
    /\ modules = <<>>
    /\ files = <<>>
    /\ nodes = <<>>
    /\ current = 0
    /\ recursive_paths = <<>>
    /\ calls = <<>>
    /\ last = NoStep

\* the application waits for a message: none was handled yet, or update returned true
Idle == pc = "start_algo" \/ (pc = "returned" /\ returned.value = <<TRUE>>)

\* nothing is left of an earlier call of find_rec_deps: its locals went with its return
NoRun ==
    /\ pending' = {}
    /\ err' = "none"
    /\ modules' = <<>>
    /\ files' = <<>>
    /\ nodes' = <<>>
    /\ current' = 0
    /\ recursive_paths' = <<>>
    /\ calls' = <<>>
    /\ last' = NoStep

\* AppMsg::Update((path, path_str)): the text of an entry has changed
Update ==
    /\ Idle
    /\ \E path \in ArgPath : \E path_str \in PathStrings(world, path) :
          model' = SetPath(model, path, <<path_str>>)
    /\ returned' = Updated
    /\ pc' = "start_algo"
    /\ NoRun
    /\ UNCHANGED <<world, written>>

\* AppMsg::Choose(path): update shows the file dialog for the path and waits in it
Choose ==
    /\ Idle
    /\ \E path \in ArgPath : returned' = InFileDialog(path)
    /\ pc' = "choose"
    /\ NoRun
    /\ UNCHANGED <<world, model, written>>

\* the file dialog returns: it gives a path, which is set (None when it is not UTF-8),
\* or gives none or an error, and the model stays as it is; update returns true
ChooseReturns ==
    /\ pc = "choose"
    /\ \E path \in {returned.message[1]} :
          \/ \E picked \in PathStrings(world, path) :
                model' = SetPath(model, path, <<picked>>)
          \/ model' = SetPath(model, path, <<>>)
          \/ model' = model
    /\ returned' = Updated
    /\ pc' = "start_algo"
    /\ UNCHANGED <<world, written, pending, err, modules, files, nodes, current,
                   recursive_paths, calls, last>>

\* AppMsg::StartAlgo with all three paths set: find_rec_deps is called
StartAlgo ==
    /\ Idle
    /\ AllPaths(model).ok
    /\ returned' = NotReturned
    /\ pc' = "create_project"
    /\ NoRun
    /\ UNCHANGED <<world, model, written>>

\* AppMsg::StartAlgo with a path unset: the message is logged, update returns false
StartAlgoRejected ==
    /\ Idle
    /\ ~AllPaths(model).ok
    /\ returned' = [kind |-> "unset", message |-> AllPaths(model).message, value |-> <<FALSE>>]
    /\ pc' = "not_called"
    /\ NoRun
    /\ UNCHANGED <<world, model, written>>

\* Project::create(project_path)? succeeds
ProjectCreate ==
    /\ pc = "create_project"
    /\ \E scan \in {ProjectScan(model.project_path[1], world.fs)} :
          /\ scan.err = "none"
          /\ modules' \in ModuleLists(scan.map)
    /\ pc' = "create_entry"
    /\ UNCHANGED <<world, model, written, pending, returned, err, files, nodes, current, recursive_paths, calls, last>>

\* Project::create(project_path)? returns the error
ProjectCreateFails ==
    /\ pc = "create_project"
    /\ \E scan \in {ProjectScan(model.project_path[1], world.fs)} :
          /\ scan.err \notin {"none", "hang"}
          /\ err' = scan.err
    /\ pc' = "error"
    /\ UNCHANGED <<world, model, written, pending, returned, modules, files, nodes, current, recursive_paths, calls, last>>

\* Project::create(project_path) does not return: a descriptor is a folder
ProjectCreateHangs ==
    /\ pc = "create_project"
    /\ \E scan \in {ProjectScan(model.project_path[1], world.fs)} : scan.err = "hang"
    /\ pc' = "hang"
    /\ UNCHANGED <<world, model, written, pending, returned, err, modules, files, nodes, current, recursive_paths, calls, last>>

\* project.create_file_info(entry_point)? succeeds; Node::create(&entry, None);
\* Node::traverse initialises recursive_paths and current
CreateEntry ==
    /\ pc = "create_entry"
    /\ \E r \in {CreateFileInfo(files, model.entry_point[1], modules, world.fs)} :
          /\ r.ok
          /\ files' = r.files
          /\ nodes' = <<NodeCreate(nodes, r.file, 0)>>
    /\ current' = 1
    /\ pc' = "traverse"
    /\ UNCHANGED <<world, model, written, pending, returned, err, modules, recursive_paths, calls, last>>

\* project.create_file_info(entry_point)? returns the error
CreateEntryFails ==
    /\ pc = "create_entry"
    /\ \E r \in {CreateFileInfo(files, model.entry_point[1], modules, world.fs)} :
          /\ ~r.ok
          /\ r.err # "hang"
          /\ err' = r.err
    /\ pc' = "error"
    /\ UNCHANGED <<world, model, written, pending, returned, modules, files, nodes, current, recursive_paths, calls, last>>

\* project.create_file_info(entry_point) does not return: the entry point is a folder
CreateEntryHangs ==
    /\ pc = "create_entry"
    /\ \E r \in {CreateFileInfo(files, model.entry_point[1], modules, world.fs)} :
          ~r.ok /\ r.err = "hang"
    /\ pc' = "hang"
    /\ UNCHANGED <<world, model, written, pending, returned, err, modules, files, nodes, current, recursive_paths, calls, last>>

CurrentProcessed == files[nodes[current].file_info].processed

\* a go-back branch that does not look at the processed flag
GoBackUnprocessed ==
    /\ pc = "traverse"
    /\ nodes[current].prev # 0
    /\ current' = nodes[current].prev
    /\ last' = [branch |-> "go_back", child |-> 0, materialised |-> FALSE, odd |-> ~last.odd]
    /\ UNCHANGED <<world, model, written, pending, returned, pc, err, modules, files, nodes, recursive_paths, calls>>

\* loop iteration, current processed, it has a parent: go back
GoBack ==
    /\ pc = "traverse"
    /\ CurrentProcessed
    /\ nodes[current].prev # 0
    /\ current' = nodes[current].prev
    /\ last' = [branch |-> "go_back", child |-> 0, materialised |-> FALSE, odd |-> ~last.odd]
    /\ UNCHANGED <<world, model, written, pending, returned, pc, err, modules, files, nodes, recursive_paths, calls>>

\* loop iteration, current processed, no parent: break, and traverse returns
Break ==
    /\ pc = "traverse"
    /\ CurrentProcessed
    /\ nodes[current].prev = 0
    /\ pc' = "done"
    /\ last' = [branch |-> "break", child |-> 0, materialised |-> FALSE, odd |-> ~last.odd]
    /\ UNCHANGED <<world, model, written, pending, returned, err, modules, files, nodes, current, recursive_paths, calls>>

\* a no-includes branch that continues without setting the processed flag
NoIncludesUnmarked ==
    /\ pc = "traverse"
    /\ ~CurrentProcessed
    /\ nodes[current].children = <<>>
    /\ files[nodes[current].file_info].includes = <<>>
    /\ last' = [branch |-> "no_includes", child |-> 0, materialised |-> FALSE, odd |-> ~last.odd]
    /\ UNCHANGED <<world, model, written, pending, returned, pc, err, modules, files, nodes, current, recursive_paths, calls>>

\* loop iteration, no children yet and the file has no includes: processed, continue
NoIncludes ==
    /\ pc = "traverse"
    /\ ~CurrentProcessed
    /\ nodes[current].children = <<>>
    /\ files[nodes[current].file_info].includes = <<>>
    /\ files' = [files EXCEPT ![nodes[current].file_info].processed = TRUE]
    /\ last' = [branch |-> "no_includes", child |-> 0, materialised |-> FALSE, odd |-> ~last.odd]
    /\ UNCHANGED <<world, model, written, pending, returned, pc, err, modules, nodes, current, recursive_paths, calls>>

\* the iteration reaches the scan of the children (line 197)
Scanning ==
    /\ pc = "traverse"
    /\ ~CurrentProcessed
    /\ ~(nodes[current].children = <<>> /\ files[nodes[current].file_info].includes = <<>>)

\* an iteration that calls create_node_children whatever the child list holds
MaterialisesAgain == TRUE

\* whether this iteration calls create_node_children
Materialises == nodes[current].children = <<>>

\* files, nodes and calls when the scan of the children starts
Scan ==
    IF Materialises
    THEN CreateNodeChildren(current, nodes, files, calls, modules, world.fs)
    ELSE [files |-> files, nodes |-> nodes, calls |-> calls, hung |-> FALSE]

\* a terminus branch that also makes the child current
TerminusDescends(st, child) ==
    /\ child # 0
    /\ IsRecursive(st.nodes, st.files, child)
    /\ files' = [st.files EXCEPT ![st.nodes[child].file_info].processed = TRUE]
    /\ nodes' = st.nodes
    /\ calls' = st.calls
    /\ recursive_paths' = InsertPath(recursive_paths,
                                     RecursiveKey(st.nodes, st.files, child),
                                     ReadablePath(st.nodes, st.files, child))
    /\ current' = child
    /\ last' = [branch |-> "terminus", child |-> child, materialised |-> Materialises, odd |-> ~last.odd]
    /\ UNCHANGED <<world, model, written, pending, returned, pc, err, modules>>

\* a terminus branch that marks the file and records no path
TerminusSilent(st, child) ==
    /\ child # 0
    /\ IsRecursive(st.nodes, st.files, child)
    /\ files' = [st.files EXCEPT ![st.nodes[child].file_info].processed = TRUE]
    /\ nodes' = st.nodes
    /\ calls' = st.calls
    /\ last' = [branch |-> "terminus", child |-> child, materialised |-> Materialises, odd |-> ~last.odd]
    /\ UNCHANGED <<world, model, written, pending, returned, pc, err, modules, current,
                   recursive_paths>>

\* loop iteration: the first unprocessed child repeats a file of its path
Terminus(st, child) ==
    /\ child # 0
    /\ IsRecursive(st.nodes, st.files, child)
    /\ files' = [st.files EXCEPT ![st.nodes[child].file_info].processed = TRUE]
    /\ nodes' = st.nodes
    /\ calls' = st.calls
    /\ recursive_paths' = InsertPath(recursive_paths,
                                     RecursiveKey(st.nodes, st.files, child),
                                     ReadablePath(st.nodes, st.files, child))
    /\ last' = [branch |-> "terminus", child |-> child, materialised |-> Materialises, odd |-> ~last.odd]
    /\ UNCHANGED <<world, model, written, pending, returned, pc, err, modules, current>>

\* a descend branch that does not ask whether the child repeats a file
DescendAny(st, child) ==
    /\ child # 0
    /\ files' = st.files
    /\ nodes' = st.nodes
    /\ calls' = st.calls
    /\ current' = child
    /\ last' = [branch |-> "descend", child |-> child, materialised |-> Materialises, odd |-> ~last.odd]
    /\ UNCHANGED <<world, model, written, pending, returned, pc, err, modules, recursive_paths>>

\* loop iteration: the first unprocessed child repeats nothing: go deeper
Descend(st, child) ==
    /\ child # 0
    /\ ~IsRecursive(st.nodes, st.files, child)
    /\ files' = st.files
    /\ nodes' = st.nodes
    /\ calls' = st.calls
    /\ current' = child
    /\ last' = [branch |-> "descend", child |-> child, materialised |-> Materialises, odd |-> ~last.odd]
    /\ UNCHANGED <<world, model, written, pending, returned, pc, err, modules, recursive_paths>>

\* loop iteration: no unprocessed child is left: current is processed
Exhausted(st, child) ==
    /\ child = 0
    /\ files' = [st.files EXCEPT ![nodes[current].file_info].processed = TRUE]
    /\ nodes' = st.nodes
    /\ calls' = st.calls
    /\ last' = [branch |-> "exhausted", child |-> 0, materialised |-> Materialises, odd |-> ~last.odd]
    /\ UNCHANGED <<world, model, written, pending, returned, pc, err, modules, current, recursive_paths>>

\* loop iteration in which a get_file call of create_node_children does not return: the
\* records and nodes made for the tokens before it are there, the iteration never ends
ScanHangs(st) ==
    /\ st.hung
    /\ files' = st.files
    /\ nodes' = st.nodes
    /\ calls' = st.calls
    /\ pc' = "hang"
    /\ last' = [branch |-> "hang", child |-> 0, materialised |-> Materialises, odd |-> ~last.odd]
    /\ UNCHANGED <<world, model, written, pending, returned, err, modules, current, recursive_paths>>

\* loop iteration that scans the children, after materialising them if there are none:
\* st is the state the scan starts in, child the unprocessed child it finds (0 for None)
ScanChildren ==
    /\ Scanning
    /\ \E st \in {Scan} :
          \/ ScanHangs(st)
          \/ /\ ~st.hung
             /\ \E child \in {FindUnprocessed(st.nodes, st.files,
                                                st.nodes[current].children)} :
                   \/ Terminus(st, child)
                   \/ Descend(st, child)
                   \/ Exhausted(st, child)

\* File::create(output_file_path)? succeeds: the output file exists and is empty
CreateOutput ==
    /\ pc = "done"
    /\ written' = [written EXCEPT !.output = << <<>> >>]
    /\ pending' = DOMAIN recursive_paths
    /\ pc' = "write_report"
    /\ UNCHANGED <<world, model, returned, err, modules, files, nodes, current,
                   recursive_paths, calls, last>>

\* File::create(output_file_path)? returns the error
CreateOutputFails ==
    /\ pc = "done"
    /\ err' = "output"
    /\ pc' = "error"
    /\ UNCHANGED <<world, model, written, pending, returned, modules, files, nodes, current,
                   recursive_paths, calls, last>>

\* one iteration of `for (file_name, paths) in recursive_paths.iter()`, every write_all
\* of which succeeds
WriteEntry ==
    /\ pc = "write_report"
    /\ \E file_name \in pending :
          /\ \E output_paths \in SortedByLen(recursive_paths[file_name]) :
                written' = [written EXCEPT
                               !.output = <<@[1] \o ReportBlock(file_name, output_paths)>>]
          /\ pending' = pending \ {file_name}
    /\ UNCHANGED <<world, model, returned, pc, err, modules, files, nodes, current,
                   recursive_paths, calls, last>>

\* an iteration of the report loop one of whose write_all(..)? returns the error: the
\* output file has grown by the first n bytes of the block, and find_rec_deps returns
WriteEntryFails ==
    /\ pc = "write_report"
    /\ \E file_name \in pending :
          \E output_paths \in SortedByLen(recursive_paths[file_name]) :
             \E text \in {Text(ReportBlock(file_name, output_paths))} :
                \E n \in WriteCuts :
                   /\ n < ByteLen(text)
                   /\ written' = [written EXCEPT
                                     !.output = <<@[1] \o Lines(BytePrefix(text, n))>>]
    /\ err' = "write"
    /\ pc' = "error"
    /\ UNCHANGED <<world, model, pending, returned, modules, files, nodes, current,
                   recursive_paths, calls, last>>

\* a find_rec_deps that writes the cache file before the report loop has ended
WriteCacheEarly ==
    /\ pc = "write_report"
    /\ written' = [written EXCEPT
                      !.cache = <<CacheLines(UnwrapAll(model).project_path,
                                             UnwrapAll(model).entry_point,
                                             UnwrapAll(model).output_file_path)>>]
    /\ pc' = "returned"
    /\ UNCHANGED <<world, model, pending, returned, err, modules, files, nodes, current,
                   recursive_paths, calls, last>>

\* after the loop: File::create(CACHE_CONFIG_PATH)? and write_all(..)? succeed, Ok(())
WriteCache ==
    /\ pc = "write_report"
    /\ pending = {}
    /\ written' = [written EXCEPT
                      !.cache = <<CacheLines(UnwrapAll(model).project_path,
                                             UnwrapAll(model).entry_point,
                                             UnwrapAll(model).output_file_path)>>]
    /\ pc' = "returned"
    /\ UNCHANGED <<world, model, pending, returned, err, modules, files, nodes, current,
                   recursive_paths, calls, last>>

\* after the loop: File::create(CACHE_CONFIG_PATH)? returns the error
WriteCacheFails ==
    /\ pc = "write_report"
    /\ pending = {}
    /\ err' = "cache"
    /\ pc' = "error"
    /\ UNCHANGED <<world, model, written, pending, returned, modules, files, nodes, current,
                   recursive_paths, calls, last>>

\* after the loop: File::create(CACHE_CONFIG_PATH)? succeeds and write_all(..)? returns
\* the error: the cache file holds the first n bytes of the text
WriteCacheCut ==
    /\ pc = "write_report"
    /\ pending = {}
    /\ \E text \in {CacheText(UnwrapAll(model).project_path,
                              UnwrapAll(model).entry_point,
                              UnwrapAll(model).output_file_path)} :
          \E n \in WriteCuts :
             /\ n < ByteLen(text)
             /\ written' = [written EXCEPT !.cache = <<Lines(BytePrefix(text, n))>>]
    /\ err' = "cache_write"
    /\ pc' = "error"
    /\ UNCHANGED <<world, model, pending, returned, modules, files, nodes, current,
                   recursive_paths, calls, last>>

\* StartAlgo after find_rec_deps returned Ok: was_successful is set and the dialog that
\* asks whether to open the report is shown
AlgoSucceeded ==
    /\ pc = "returned"
    /\ returned = NotReturned
    /\ model' = [model EXCEPT !.was_successful = <<TRUE>>]
    /\ returned' = InDialog
    /\ UNCHANGED <<world, written, pending, pc, err, modules, files, nodes, current,
                   recursive_paths, calls, last>>

\* show_confirm() returns Ok(open_file): the report is opened when the user asks for
\* it, and update returns false when that fails, true otherwise
ShowConfirm ==
    /\ returned = InDialog
    /\ \E open_file, opened \in BOOLEAN :
          returned' = IF open_file /\ ~opened
                      THEN [kind |-> "open", message |-> <<>>, value |-> <<FALSE>>]
                      ELSE [kind |-> "none", message |-> <<>>, value |-> <<TRUE>>]
    /\ UNCHANGED <<world, model, written, pending, pc, err, modules, files, nodes, current,
                   recursive_paths, calls, last>>

\* show_confirm() returns Err: the unwrap panics and update does not return
ShowConfirmFails ==
    /\ returned = InDialog
    /\ returned' = [kind |-> "panic", message |-> <<>>, value |-> <<>>]
    /\ UNCHANGED <<world, model, written, pending, pc, err, modules, files, nodes, current,
                   recursive_paths, calls, last>>

\* StartAlgo after find_rec_deps returned Err: the error is logged, update returns false
AlgoFailed ==
    /\ pc = "error"
    /\ returned = NotReturned
    /\ model' = [model EXCEPT !.was_successful = <<FALSE>>]
    /\ returned' = [kind |-> "algo", message |-> <<>>, value |-> <<FALSE>>]
    /\ UNCHANGED <<world, written, pending, pc, err, modules, files, nodes, current,
                   recursive_paths, calls, last>>

Next ==
    \/ Update
    \/ Choose
    \/ ChooseReturns
    \/ StartAlgo
    \/ StartAlgoRejected
    \/ CreateOutput
    \/ CreateOutputFails
    \/ WriteEntry
    \/ WriteEntryFails
    \/ WriteCache
    \/ WriteCacheFails
    \/ WriteCacheCut
    \/ AlgoSucceeded
    \/ ShowConfirm
    \/ ShowConfirmFails
    \/ AlgoFailed
    \/ ProjectCreate
    \/ ProjectCreateFails
    \/ ProjectCreateHangs
    \/ CreateEntry
    \/ CreateEntryFails
    \/ CreateEntryHangs
    \/ GoBack
    \/ Break
    \/ NoIncludes
    \/ ScanChildren

Spec == Init /\ [][Next]_vars

\* the steps that read the disk, and the states in which the program is about to take
\* one of them
DiskStep ==
    \/ ProjectCreate \/ ProjectCreateFails \/ ProjectCreateHangs
    \/ CreateEntry \/ CreateEntryFails \/ CreateEntryHangs
    \/ ScanChildren
AtDiskStep == pc \in {"create_project", "create_entry"} \/ Scanning

\* A single thread runs find_rec_deps: every loop iteration of traverse it starts and
\* every read of the disk is carried out, as far as the state "hang", in which a call
\* that does not return stays; and update goes on once find_rec_deps has returned.  For
\* the steps that read the disk weak fairness is written out, with AtDiskStep for
\* ENABLED <<DiskStep>>_vars.  Nothing makes a message arrive, nothing makes the user
\* answer the dialog, and nothing makes File::create or write_all on the output file
\* and on the run-memory file return: on a FIFO without a peer they block.
FairSpec ==
    /\ Spec
    /\ WF_vars(GoBack)
    /\ WF_vars(Break)
    /\ WF_vars(NoIncludes)
    /\ WF_vars(AlgoSucceeded \/ AlgoFailed)
    /\ ([]<>(~AtDiskStep) \/ []<><<DiskStep>>_vars)

(***************************************************************************)
(* The include graph of the input, read off the disk                       *)
(***************************************************************************)

Fs == world.fs

\* the project path and the entry point of the form, <<>> while unset: the arguments of
\* find_rec_deps while it runs
ProjectPath == IF model.project_path = <<>> THEN <<>> ELSE model.project_path[1]
EntryPoint == IF model.entry_point = <<>> THEN <<>> ELSE model.entry_point[1]

\* the step is taken inside a call of update for StartAlgo, not on a new message
SameRun == ~Idle

\* the project has one module, Engine/R, with the one folder D1
FlatProject ==
    /\ (PROJECT \o STR_CMAKELISTS) \in DOMAIN Fs
    /\ INCLUDES_FILE \in DOMAIN Fs
    /\ Fs[PROJECT \o STR_CMAKELISTS] = <<ROOT_LINE>>
    /\ Fs[INCLUDES_FILE] = <<FolderLine(D1)>>
    /\ ProjectPath = PROJECT
    /\ EntryPoint = PathToFile(D1, NAMES[1])

\* the tokens that name the file `name` of the folder D1
Spellings(name) == {name, <<".", "/">> \o name,
                    <<".", ".", "/", "P", "u", "b", "l", "i", "c", "/">> \o name}

\* in a flat project, file a of NAMES has a line including file b, by its name or by
\* another spelling of it, and b exists
FlatEdge(a, b) ==
    /\ PathToFile(D1, NAMES[a]) \in DOMAIN Fs
    /\ PathToFile(D1, NAMES[b]) \in DOMAIN Fs
    /\ \E k \in 1..Len(Fs[PathToFile(D1, NAMES[a])]) :
          \E t \in Spellings(NAMES[b]) : Fs[PathToFile(D1, NAMES[a])][k] = IncludeLine(t)

FlatSucc(S) == {b \in 1..Len(NAMES) : \E a \in S : FlatEdge(a, b)}

RECURSIVE FlatReach(_)
FlatReach(S) == IF FlatSucc(S) \subseteq S THEN S ELSE FlatReach(S \cup FlatSucc(S))

\* no file of a flat project reaches itself
FlatAcyclic == FlatProject /\ \A a \in 1..Len(NAMES) : a \notin FlatReach(FlatSucc({a}))

\* the orders f1, ..., fn (n >= 2) of distinct files of NAMES that start at the entry file
ChainOrders ==
    {o \in UNION {[1..n -> 1..Len(NAMES)] : n \in 2..Len(NAMES)} :
        o[1] = 1 /\ \A i, j \in 1..Len(o) : o[i] = o[j] => i = j}

\* the flat project is the simple cycle o[1] -> o[2] -> ... -> o[n] -> o[1]:
\* each file of the cycle holds the one line including the next
IsChain(o) ==
    /\ FlatProject
    /\ \A i \in 1..Len(o) :
          /\ PathToFile(D1, NAMES[o[i]]) \in DOMAIN Fs
          /\ Fs[PathToFile(D1, NAMES[o[i]])] = <<IncludeLine(NAMES[o[(i % Len(o)) + 1]])>>

\* file names along the cycle and back to the entry file
ChainPath(o) == [i \in 1..(Len(o) + 1) |-> NAMES[o[IF i <= Len(o) THEN i ELSE 1]]]

\* the entry file is D1/A.h and holds the one line including A.h
SelfIncludeWorld ==
    /\ EntryPoint = PathToFile(D1, A_H)
    /\ EntryPoint \in DOMAIN Fs
    /\ Fs[EntryPoint] = <<IncludeLine(A_H)>>

\* A includes B and C; B and C each include D; D has no includes
DiamondWorld ==
    /\ FlatProject
    /\ \A i \in 1..Len(NAMES) : PathToFile(D1, NAMES[i]) \in DOMAIN Fs
    /\ Fs[PathToFile(D1, A_H)] = <<IncludeLine(B_H), IncludeLine(C_H)>>
    /\ Fs[PathToFile(D1, B_H)] = <<IncludeLine(D_H)>>
    /\ Fs[PathToFile(D1, C_H)] = <<IncludeLine(D_H)>>
    /\ Fs[PathToFile(D1, D_H)] = <<>>

(***************************************************************************)
(* Claims                                                                  *)
(***************************************************************************)

\* C1: when the project is a simple include cycle f1 -> f2 -> ... -> fn -> f1 (n >= 2)
\* and nothing else, the report traverse returns has the single key f1's file name,
\* with the single path f1, f2, ..., fn, f1.
C1_ChainCycleReport ==
    pc = "done" =>
        \A o \in ChainOrders : IsChain(o) => recursive_paths = (A_H :> {ChainPath(o)})

\* a three-file cycle has been traversed to the end
C1_Witness ==
    /\ pc = "done"
    /\ \E o \in ChainOrders : Len(o) = 3 /\ IsChain(o)
    /\ Len(calls) = 3

\* C2: when the entry file includes itself and nothing else, the self-including child is
\* never made current (no third node is ever created) and the report returned is
\* exactly {name: {[name, name]}}.
C2_SelfInclude ==
    SelfIncludeWorld =>
        /\ current <= 1
        /\ Len(nodes) <= 2
        /\ pc = "done" => recursive_paths = (A_H :> {<<A_H, A_H>>})

\* the self-including entry file has been traversed to the end
C2_Witness ==
    /\ SelfIncludeWorld
    /\ pc = "done"
    /\ Len(nodes) = 2

\* C3: while traversing an acyclic include graph, shared files included, the report
\* stays empty, and it is empty when traverse returns.
C3_AcyclicEmptyReport == FlatAcyclic => recursive_paths = <<>>

\* the diamond has been traversed to the end: D has two nodes and one record
C3_Witness ==
    /\ DiamondWorld
    /\ pc = "done"
    /\ Len(files) = 4
    /\ Len(nodes) = 5
    /\ recursive_paths = <<>>

\* C4: Project.files never holds two records with the same absolute path, and two
\* get_file calls with the same token from the same module return the same record.
C4_OneRecordPerPath ==
    /\ \A i, j \in 1..Len(files) : files[i].abs_path = files[j].abs_path => i = j
    /\ \A i, j \in 1..Len(calls) :
          (/\ calls[i].partial_path = calls[j].partial_path
           /\ calls[i].entry_module = calls[j].entry_module) => calls[i].file = calls[j].file

\* the same token was resolved twice from the same module, the second time from the
\* cache, to a record that is processed by now
C4_Witness ==
    \E i, j \in 1..Len(calls) :
        /\ i < j
        /\ calls[i].partial_path = calls[j].partial_path
        /\ calls[i].entry_module = calls[j].entry_module
        /\ calls[j].file # 0
        /\ calls[j].file <= calls[j].before
        /\ files[calls[j].file].processed

\* C5: on every project, whatever its include graph, the loop of traverse ends: once
\* the traversal has started it reaches the break, at the root node, with the root
\* file processed.
C5_TraverseTerminates ==
    (pc = "traverse") ~>
        (/\ pc = "done"
         /\ nodes[current].prev = 0
         /\ files[nodes[current].file_info].processed)

RECURSIVE FoldersOf(_)
FoldersOf(mods) ==
    IF mods = <<>> THEN <<>> ELSE Head(mods).include_paths \o FoldersOf(Tail(mods))

\* the folders the resolver is to probe for a token of a file of entry_module, in
\* order: those of entry_module, then those of every other module in index order
ProbeOrder(entry_module) ==
    LET IsOwn(m) == m.name = entry_module
        IsOther(m) == m.name # entry_module
    IN  FoldersOf(SelectSeq(modules, IsOwn)) \o FoldersOf(SelectSeq(modules, IsOther))

\* the first existing path in probe order, <<>> when every folder misses
FirstHit(partial_path, entry_module) ==
    LET dirs == ProbeOrder(entry_module)
        hits == {i \in 1..Len(dirs) : Exists(Fs, PathToFile(dirs[i], partial_path))}
    IN  IF hits = {} THEN <<>>
        ELSE PathToFile(dirs[CHOOSE i \in hits : \A j \in hits : i <= j], partial_path)

\* the path names a file whose extension is none of h, hpp, c, cpp, inl
UnsupportedPath(path) ==
    FileTypeOf(SplitLast(SplitLast(path, "/"), ".")) = "Unsupported"

\* C6: when an include reaches a file that exists in a probed folder and has an
\* unsupported extension, the run aborts with the unsupported-file-type error.
C6_UnsupportedIncludeAborts ==
    \A i \in 1..Len(calls) :
        LET hit == FirstHit(calls[i].partial_path, calls[i].entry_module)
        IN  (hit # <<>> /\ UnsupportedPath(hit)) => (pc = "error" /\ err = "type")

\* the files on the path from the root to the current node
CurrentPath == {nodes[current].node_path[i] : i \in 1..Len(nodes[current].node_path)}

\* C7: every resolved include of a processed file leads to a file that is processed or
\* on the current path, and when the traversal has ended every file of the catalog is
\* processed.
C7_ProcessedMeansExplored ==
    pc \in {"traverse", "done"} =>
        /\ \A i \in 1..Len(calls) :
              (calls[i].file # 0 /\ files[calls[i].from].processed) =>
                  (files[calls[i].file].processed \/ calls[i].file \in CurrentPath)
        /\ pc = "done" => \A f \in 1..Len(files) : files[f].processed

\* C8: a record is created unprocessed; a step of the run changes an existing record in
\* nothing but its processed flag, and that only from false to true; no record is
\* removed.
C8_ProcessedMonotonic ==
    [][SameRun =>
          /\ Len(files') >= Len(files)
          /\ \A i \in 1..Len(files') :
                IF i <= Len(files)
                THEN \/ files'[i] = files[i]
                     \/ ~files[i].processed /\ files'[i] = [files[i] EXCEPT !.processed = TRUE]
                ELSE ~files'[i].processed]_vars

\* the traversal has ended on a catalog of three or more records, all of them processed
C8_Witness ==
    /\ pc = "done"
    /\ Len(files) >= 3
    /\ \A f \in 1..Len(files) : files[f].processed

\* C9: every get_file call returns the record of the first existing path in probe
\* order, and no record only when every folder of every module misses.
C9_FirstHitReturned ==
    \A i \in 1..Len(calls) :
        LET hit == FirstHit(calls[i].partial_path, calls[i].entry_module)
        IN  IF hit = <<>> THEN calls[i].file = 0
            ELSE calls[i].file # 0 /\ files[calls[i].file].abs_path = hit

\* the entry file can be opened and read and has a supported extension
EntryReadable ==
    /\ Opens(Fs, EntryPoint)
    /\ ~NeverEnds(Fs, EntryPoint)
    /\ ~UnsupportedPath(EntryPoint)

\* C10: the owning module of every record is an indexed module whose name is a
\* substring of the record's path, and no indexed module with a longer name (String::len,
\* the bytes of the name) is one;
\* an entry file that can be parsed and matches no module ends the run with the
\* module-resolution error, and no record is cached.
C10_LongestModule ==
    /\ \A f \in 1..Len(files) :
          /\ \E m \in 1..Len(modules) : modules[m].name = files[f].module
          /\ Contains(files[f].abs_path, files[f].module)
          /\ \A m \in 1..Len(modules) :
                Contains(files[f].abs_path, modules[m].name) =>
                    ByteLen(modules[m].name) <= ByteLen(files[f].module)
    /\ (/\ pc \notin {"create_project", "create_entry"}
        /\ modules # <<>>
        /\ EntryReadable
        /\ \A m \in 1..Len(modules) : ~Contains(EntryPoint, modules[m].name))
           => (pc = "error" /\ err = "module" /\ files = <<>>)

\* a record under D3 is owned by Engine/R/C although Engine/R, indexed before it, is a
\* substring of its path as well
C10_Witness ==
    \E f \in 1..Len(files) : \E m, k \in 1..Len(modules) :
        /\ m < k
        /\ modules[k].name = files[f].module
        /\ ByteLen(modules[m].name) < ByteLen(modules[k].name)
        /\ Contains(files[f].abs_path, modules[m].name)

\* the files of the catalog whose extracted include list is empty
EmptyFiles == {f \in 1..Len(files) : files[f].includes = <<>>}

\* the elements of a sequence
Range(s) == {s[i] : i \in 1..Len(s)}

\* the file names the report holds, as keys or as elements of a path
ReportNames ==
    DOMAIN recursive_paths
        \cup UNION {Range(p) : p \in UNION {recursive_paths[k] : k \in DOMAIN recursive_paths}}

\* what the traversal does to a file without includes: processed in the first iteration
\* with it as current (it is current and unprocessed only on arrival), no child on any
\* of its nodes, no get_file call issued for it
C11_EmptyFileHandled ==
    \A f \in EmptyFiles :
        /\ (pc = "traverse" /\ nodes[current].file_info = f /\ ~files[f].processed)
               => last.branch \in {"none", "descend"}
        /\ \A n \in 1..Len(nodes) : nodes[n].file_info = f => nodes[n].children = <<>>
        /\ \A i \in 1..Len(calls) : calls[i].from # f

\* C11 as stated: a file without includes is handled as above and its file name is
\* neither a key of the report nor an element of any of its paths.
C11_EmptyFileNameAbsent ==
    /\ C11_EmptyFileHandled
    /\ \A f \in EmptyFiles : files[f].file_name \notin ReportNames

\* C11, amended: a file without includes is handled as above and lies on the node path
\* of no terminus child, the node paths whose file names are the paths of the report.
C11_EmptyFileContributesNothing ==
    /\ C11_EmptyFileHandled
    /\ last.branch = "terminus" =>
           \A f \in EmptyFiles : f \notin Range(nodes[last.child].node_path)

\* a cycle has been reported in a run in which a file without includes became current
\* and was marked processed
C11_Witness ==
    /\ recursive_paths # <<>>
    /\ last.branch = "terminus"
    /\ \E f \in EmptyFiles :
          /\ files[f].processed
          /\ \E n \in 1..Len(nodes) : nodes[n].file_info = f

\* no folder of any module holds the token
NowhereOnDisk(partial_path) ==
    \A m \in 1..Len(modules) : \A d \in 1..Len(modules[m].include_paths) :
        ~Exists(Fs, PathToFile(modules[m].include_paths[d], partial_path))

\* the node whose children the last iteration materialised
MaterialisedNode == IF last.branch = "descend" THEN nodes[current].prev ELSE current

\* the get_file calls of the last materialisation, one per include token, in order
LastBatch ==
    LET k == Len(files[nodes[MaterialisedNode].file_info].includes)
    IN  SubSeq(calls, Len(calls) - k + 1, Len(calls))

\* the files a sequence of calls resolved, in call order
RECURSIVE ResolvedOf(_)
ResolvedOf(batch) ==
    IF batch = <<>> THEN <<>>
    ELSE (IF Head(batch).file # 0 THEN <<Head(batch).file>> ELSE <<>>) \o ResolvedOf(Tail(batch))

\* C12: a token no module holds gives no record and no error; the children a node gets,
\* when create_node_children returns, are the nodes of the tokens that were resolved,
\* in token order, each below the node; a file none of whose tokens is resolved is marked processed in that very
\* iteration with no child, and the iteration adds no path to the report.
C12_UnresolvedTokenDropped ==
    /\ \A i \in 1..Len(calls) :
          NowhereOnDisk(calls[i].partial_path)
              => (calls[i].file = 0 /\ err \notin {"io", "anchor", "type", "module"})
    /\ (last.materialised /\ pc # "hang") =>
          LET n == MaterialisedNode
              f == nodes[n].file_info
              batch == LastBatch
              kids == nodes[n].children
          IN  /\ Len(batch) = Len(files[f].includes)
              /\ \A i \in 1..Len(batch) :
                    /\ batch[i].from = f
                    /\ batch[i].partial_path = files[f].includes[i]
              /\ [j \in 1..Len(kids) |-> nodes[kids[j]].file_info] = ResolvedOf(batch)
              /\ \A j \in 1..Len(kids) : nodes[kids[j]].prev = n
              /\ ResolvedOf(batch) = <<>> =>
                    (kids = <<>> /\ files[f].processed /\ last.branch = "exhausted")
    /\ last.branch = "terminus" =>
          \A f \in Range(nodes[last.child].node_path) :
              \E i \in 1..Len(calls) : calls[i].from = f /\ calls[i].file # 0

\* the traversal has come to its end after a node got a child for a later token while
\* an earlier token of the same file was found in no module
C12_Witness ==
    /\ pc = "done"
    /\ \E i, j \in 1..Len(calls) :
          /\ i < j
          /\ calls[i].from = calls[j].from
          /\ NowhereOnDisk(calls[i].partial_path)
          /\ calls[i].file = 0
          /\ calls[j].file # 0

\* C13: the report maps each key to a non-empty set of paths (a set holds a path once);
\* every path under key k has two or more elements, ends with k and starts with the
\* file name of the entry file.
C13_ReportPathShape ==
    \A k \in DOMAIN recursive_paths :
        /\ recursive_paths[k] # {}
        /\ \A p \in recursive_paths[k] :
              /\ Len(p) >= 2
              /\ p[Len(p)] = k
              /\ p[1] = files[nodes[1].file_info].file_name

\* the report holds a path of three or more names under a key that is not the name of
\* the entry file
C13_Witness ==
    \E k \in DOMAIN recursive_paths : \E p \in recursive_paths[k] :
        /\ Len(p) >= 3
        /\ k # files[nodes[1].file_info].file_name

\* find_rec_deps has been called and Project::create has returned
AfterProjectCreate == pc \notin {"start_algo", "choose", "not_called", "create_project"}

\* find_rec_deps has been called and create_file_info(entry_point) has returned
AfterCreateEntry == AfterProjectCreate /\ pc # "create_entry"

\* the file cannot be read: it is not there, it cannot be opened, or it is a folder
Unreadable(path) == ~Opens(Fs, path) \/ NeverEnds(Fs, path)

\* the root descriptor is unreadable
RootUnreadable == Unreadable(ProjectPath \o STR_CMAKELISTS)

\* the root descriptor names the secondary file, which is unreadable
SecondaryUnreadable ==
    /\ ~RootUnreadable
    /\ \E i \in 1..Len(Fs[ProjectPath \o STR_CMAKELISTS]) :
          Fs[ProjectPath \o STR_CMAKELISTS][i] = ROOT_LINE
    /\ Unreadable(INCLUDES_FILE)

\* the secondary file lists a quoted folder, not an intermediate one, without Engine/
AnchorMissing ==
    /\ ~RootUnreadable
    /\ ~Unreadable(INCLUDES_FILE)
    /\ \E i \in 1..Len(Fs[INCLUDES_FILE]) :
          /\ Contains(Fs[INCLUDES_FILE][i], <<"\"">>)
          /\ ~Contains(Fs[INCLUDES_FILE][i], STR_INTERMEDIATE)
          /\ ~Contains(Fs[INCLUDES_FILE][i], STR_ENGINE)

\* the entry file is unreadable, has an unsupported extension, or lies in no module
EntryUnusable ==
    \/ Unreadable(EntryPoint)
    \/ UnsupportedPath(EntryPoint)
    \/ \A m \in 1..Len(modules) : ~Contains(EntryPoint, modules[m].name)

\* find_rec_deps returned the error of Project::create or of the entry file
EarlyFailure == pc = "error" /\ err \in {"io", "anchor", "type", "module"}

\* C14: when the root descriptor or the secondary file is unreadable, the anchor is
\* missing, or the entry file cannot be made a record, find_rec_deps returns that error;
\* and whenever it does, no node was created, no iteration of the traversal ran, no
\* include was resolved, and no step of the call has touched the output file or the
\* run-memory file.
C14_EarlyFailureWritesNothing ==
    /\ []((AfterProjectCreate /\ (RootUnreadable \/ SecondaryUnreadable \/ AnchorMissing))
             => (EarlyFailure /\ modules = <<>> /\ files = <<>>))
    /\ []((AfterCreateEntry /\ EntryUnusable) => (EarlyFailure /\ files = <<>>))
    /\ [](EarlyFailure =>
             /\ nodes = <<>>
             /\ current = 0
             /\ last = NoStep
             /\ calls = <<>>
             /\ recursive_paths = <<>>
             /\ returned.value \in {<<>>, <<FALSE>>})
    /\ [][(pc \in {"create_project", "create_entry"} \/ EarlyFailure)
             => written' = written]_vars

\* the line holds the directive and names no generated header
Qualifies(line) ==
    /\ Contains(line, STR_INCLUDE)
    /\ ~Contains(line, STR_GENERATED)
    /\ ~Contains(line, STR_GEN)

\* C15: the includes of every record are as many as the lines of its file that hold
\* "#include" and neither ".generated." nor ".gen.", one token per such line in line
\* order (the token is a piece of its line, quotes removed); the token of a line that
\* names a generated header is never among them.
C15_GeneratedIncludesSkipped ==
    \A f \in 1..Len(files) :
        LET lines == ReadLines(Fs, files[f].abs_path)
            kept == SelectSeq(lines, Qualifies)
        IN  /\ Len(files[f].includes) = Len(kept)
            /\ \A k \in 1..Len(kept) :
                  /\ files[f].includes[k] # <<>>
                  /\ Contains(Replace(kept[k], <<"\"">>, <<>>), files[f].includes[k])
            /\ \A k \in 1..Len(files[f].includes) :
                  files[f].includes[k] \notin {B_GENERATED_H, B_GEN_H}

\* a record was made of a file whose first line includes a .gen. header and whose
\* second line is an include that is kept
C15_Witness ==
    \E f \in 1..Len(files) :
        /\ Len(ReadLines(Fs, files[f].abs_path)) = 2
        /\ Contains(ReadLines(Fs, files[f].abs_path)[1], STR_GEN)
        /\ Contains(ReadLines(Fs, files[f].abs_path)[1], STR_INCLUDE)
        /\ Len(files[f].includes) = 1

\* C16: over one descriptor Project::create can return one module list only: any two
\* lists it may return are equal, in the order of the modules and of their folders.
C16_ProjectCreatePure ==
    pc = "create_project" =>
        \A scan \in {ProjectScan(model.project_path[1], world.fs)} :
            scan.err = "none" =>
                \A a, b \in ModuleLists(scan.map) : a = b

\* the module names are in ascending order of length, each name once, and no module
\* lists a folder twice
ModulesWellFormed ==
    /\ \A i, j \in 1..Len(modules) :
          i < j => (/\ ByteLen(modules[i].name) <= ByteLen(modules[j].name)
                    /\ modules[i].name # modules[j].name)
    /\ \A m \in 1..Len(modules) :
          \A i, j \in 1..Len(modules[m].include_paths) :
              i < j => modules[m].include_paths[i] # modules[m].include_paths[j]

\* C17: the module list is sorted ascending by name length (String::len, the bytes of
\* the name), holds each name once and each folder of a module once, and no step of the
\* run after Project::create changes it.
C17_ModuleIndexSortedReadOnly ==
    /\ []ModulesWellFormed
    /\ [][(SameRun /\ pc # "create_project") => modules' = modules]_vars

\* find_rec_deps has returned on a descriptor that lists a folder twice: three modules
\* of two name lengths, one of them with two folders
C17_Witness ==
    /\ pc = "returned"
    /\ world = RepeatedFolderWorld
    /\ Len(modules) = 3
    /\ ByteLen(modules[1].name) < ByteLen(modules[3].name)
    /\ \E m \in 1..3 : Len(modules[m].include_paths) = 2

\* the three inputs of the form are set
AllSet == model.project_path # <<>> /\ model.entry_point # <<>> /\ model.output_file # <<>>

\* StartAlgo has been handled as far as the call of find_rec_deps or the refusal
StartAlgoHandled == pc \notin {"start_algo", "choose"}

\* C18: once StartAlgo is handled with an input unset, find_rec_deps was not called
\* (no module, record or node of its making exists, and the step has left the files
\* and the form as they were), update returned false, and the message logged names
\* the unset inputs and no other; find_rec_deps is called only with all three inputs
\* set.
C18_UnsetInputRefused ==
    /\ []((StartAlgoHandled /\ ~AllSet) =>
          /\ pc = "not_called"
          /\ returned.kind = "unset"
          /\ returned.value = <<FALSE>>
          /\ Len(returned.message) = 1
          /\ Contains(returned.message[1], STR_PROJECT) <=> model.project_path = <<>>
          /\ Contains(returned.message[1], STR_ENTRY_POINT) <=> model.entry_point = <<>>
          /\ Contains(returned.message[1], STR_OUTPUT_FILE) <=> model.output_file = <<>>
          /\ modules = <<>> /\ files = <<>> /\ nodes = <<>>)
    /\ [][pc' = "not_called" => (written' = written /\ model' = model)]_vars
    /\ [](pc \notin {"start_algo", "choose", "not_called"} => AllSet)
    /\ [](AllSet => pc # "not_called")

\* StartAlgo was refused with the project path and the output file unset, and the
\* message names those two
C18_Witness ==
    /\ pc = "not_called"
    /\ model.project_path = <<>>
    /\ model.entry_point # <<>>
    /\ model.output_file = <<>>
    /\ returned.message = <<STR_PROJECT \o STR_AMP \o STR_OUTPUT_FILE \o STR_WERE_NOT_SET>>

\* the report loop has ended: every key of the report has been written
ReportWritten ==
    \/ pc = "write_report" /\ pending = {}
    \/ pc = "returned"
    \/ pc = "error" /\ err \in {"cache", "cache_write"}

\* the number of lines of the blocks of the keys in S
RECURSIVE BlockLines(_)
BlockLines(S) ==
    IF S = {} THEN 0
    ELSE LET k == CHOOSE x \in S : TRUE
         IN  3 + Cardinality(recursive_paths[k]) + BlockLines(S \ {k})

\* lines i .. i + n + 2 of the output are the block of key k: the separator, "k:", the
\* n paths of the key, one per line and each once, never a longer path before a
\* shorter one, and the separator
BlockAt(lines, i, k) ==
    LET n == Cardinality(recursive_paths[k])
    IN  /\ i + n + 2 <= Len(lines)
        /\ lines[i] = SEPARATOR
        /\ lines[i + 1] = k \o <<":">>
        /\ lines[i + n + 2] = SEPARATOR
        /\ \E o \in [1..n -> recursive_paths[k]] :
              /\ \A p \in recursive_paths[k] : \E j \in 1..n : o[j] = p
              /\ \A j \in 1..n : lines[i + 1 + j] = <<"\t">> \o Join(o[j], <<"-", ">">>)
              /\ \A j \in 1..(n - 1) : Len(o[j]) <= Len(o[j + 1])

\* C19: when the report loop has ended the output file holds one block per key of the
\* report and nothing else; in a block the paths of the key stand between two
\* separator lines, after the line of the key, each path once, in ascending order of
\* their number of file names.
C19_ReportTextOrdered ==
    ReportWritten =>
        /\ written.output # <<>>
        /\ Len(written.output[1]) = BlockLines(DOMAIN recursive_paths)
        /\ \A k \in DOMAIN recursive_paths :
              \E i \in 1..Len(written.output[1]) : BlockAt(written.output[1], i, k)

\* the report was written with a key that has a path of three names and one of four
C19_Witness ==
    /\ pc = "returned"
    /\ \E k \in DOMAIN recursive_paths : \E p, q \in recursive_paths[k] :
          Len(p) = 3 /\ Len(q) = 4

\* the report of TwinCycleWorld from its entry point A.h
TwinCycleReport ==
    (B_H :> {<<A_H, C_H, B_H, B_H>>, <<A_H, B_H, B_H>>})

\* the three inputs of the call, one after the other with a line feed between them
InputsText == Join(<<model.project_path[1], model.entry_point[1], model.output_file[1]>>,
                   <<"\n">>)

\* no input of the call holds a line feed
OneLineInputs ==
    /\ ~Contains(model.project_path[1], <<"\n">>)
    /\ ~Contains(model.entry_point[1], <<"\n">>)
    /\ ~Contains(model.output_file[1], <<"\n">>)

\* C20: the cache file changes only in the step that follows the report loop, when the
\* traversal has returned and the block of every key is in the output file; the step
\* leaves the report alone; when its write succeeds the lines of the cache file spell
\* project root, entry point, output path, in that order and nothing else (when the
\* write fails, a part of that text from its start), and AppModel::new reads inputs
\* of one line each back as the three inputs of the run.  What the cache file held
\* before the run has no part in it: the root node is the entry point of the call and
\* the report is the one of that entry point.
C20_CacheWrittenLast ==
    /\ [][written'.cache # written.cache =>
             /\ pc = "write_report" /\ pc' \in {"returned", "error"}
             /\ pending = {}
             /\ written.output # <<>>
             /\ Len(written.output[1]) = BlockLines(DOMAIN recursive_paths)
             /\ \A k \in DOMAIN recursive_paths :
                   \E i \in 1..Len(written.output[1]) : BlockAt(written.output[1], i, k)
             /\ written'.output = written.output
             /\ recursive_paths' = recursive_paths
             /\ written'.cache # <<>>
             /\ IF pc' = "returned"
                THEN /\ Join(written'.cache[1], <<"\n">>) = InputsText
                     /\ OneLineInputs =>
                           /\ written'.cache[1] = <<model.project_path[1],
                                                     model.entry_point[1],
                                                     model.output_file[1]>>
                           /\ AppModelNew(written'.cache)
                                 = [model EXCEPT !.was_successful = <<>>]
                ELSE /\ err' = "cache_write"
                     /\ Len(Join(written'.cache[1], <<"\n">>)) < Len(InputsText)
                     /\ StartsAt(InputsText, Join(written'.cache[1], <<"\n">>), 1)]_vars
    /\ [](pc = "returned" =>
             /\ written.cache # <<>>
             /\ Join(written.cache[1], <<"\n">>) = InputsText)
    /\ [](nodes # <<>> => files[nodes[1].file_info].abs_path = model.entry_point[1])
    /\ []((world = TwinCycleWorld /\ pc = "returned" /\ EntryPoint = PathToFile(D1, A_H))
             => recursive_paths = TwinCycleReport)

\* the run on A.h has returned Ok with a report of two paths and the cache file holds
\* the three inputs of that run
C20_Witness ==
    /\ world = TwinCycleWorld
    /\ pc = "returned"
    /\ EntryPoint = PathToFile(D1, A_H)
    /\ recursive_paths = TwinCycleReport
    /\ written.cache = << <<PROJECT, PathToFile(D1, A_H), OUTPUT_FILE>> >>
    /\ Len(written.output[1]) = 5

(***************************************************************************)
(* The loop of Node::traverse, iteration by iteration                      *)
(***************************************************************************)

\* the step is one iteration of the loop of Node::traverse
Iteration == pc = "traverse" /\ last'.odd # last.odd

\* the children of the current node whose file is not processed and which stand after
\* no other such child
FirstOpenChildren ==
    IF pc # "traverse" THEN {}
    ELSE {nodes[current].children[i] : i \in
            {i \in 1..Len(nodes[current].children) :
                /\ ~files[nodes[nodes[current].children[i]].file_info].processed
                /\ \A j \in 1..(i - 1) :
                      files[nodes[nodes[current].children[j]].file_info].processed}}

\* the node_path of node n holds one absolute path twice
RepeatsAFile(n) ==
    \E i, j \in 1..Len(nodes[n].node_path) :
        i # j /\ files[nodes[n].node_path[i]].abs_path = files[nodes[n].node_path[j]].abs_path

\* the file names along the node_path of node n
NamesAlong(n) == [i \in 1..Len(nodes[n].node_path) |-> files[nodes[n].node_path[i]].file_name]

\* the report differs from the one before by nothing but path p under key k
OnlyAdded(k, p) ==
    /\ DOMAIN recursive_paths' = DOMAIN recursive_paths \cup {k}
    /\ recursive_paths'[k] =
          (IF k \in DOMAIN recursive_paths THEN recursive_paths[k] ELSE {}) \cup {p}
    /\ \A x \in DOMAIN recursive_paths : x # k => recursive_paths'[x] = recursive_paths[x]

\* C21: a loop iteration that starts with the current file unprocessed and with a first
\* unprocessed child whose node_path repeats a file sets the processed flag of that
\* child's file, adds the child's readable path under its file name, and changes
\* nothing else: not current, not a node, not another record.  An iteration that
\* materialises the children and then finds such a child does the same to the records
\* that were there, and leaves current where it was.
C21_TerminusStep ==
    /\ [][\A c \in FirstOpenChildren :
             (pc = "traverse" /\ ~CurrentProcessed /\ RepeatsAFile(c)) =>
                /\ files' = [files EXCEPT ![nodes[c].file_info].processed = TRUE]
                /\ OnlyAdded(NamesAlong(c)[Len(NamesAlong(c))], NamesAlong(c))
                /\ current' = current
                /\ current' # c
                /\ nodes' = nodes
                /\ pc' = pc
                /\ last'.branch = "terminus" /\ last'.child = c]_vars
    /\ [][(Iteration /\ last'.branch = "terminus") =>
             /\ current' = current
             /\ current' # last'.child
             /\ files'[nodes'[last'.child].file_info].processed
             /\ \A f \in 1..Len(files) :
                   f # nodes'[last'.child].file_info => files'[f] = files[f]
             /\ \A f \in (Len(files) + 1)..Len(files') : ~files'[f].processed
             /\ nodes[current].children # <<>> => nodes' = nodes]_vars

\* a terminus was recorded on children that an earlier iteration had materialised, and
\* current still is the parent of the child
C21_Witness ==
    /\ pc = "traverse"
    /\ last.branch = "terminus"
    /\ ~last.materialised
    /\ nodes[last.child].prev = current
    /\ files[nodes[last.child].file_info].processed
    /\ Len(nodes[current].children) >= 2

\* C22: a step that changes current either goes to the parent, and then the file of
\* the node it leaves is processed, or goes to a child of the node; an iteration on a
\* processed node with a parent goes to that parent; the loop is left only from the
\* root with the root file processed, and traverse returns then (an iteration that
\* never ends leaves no loop).
C22_PopOnlyProcessed ==
    /\ [][(pc = "traverse" /\ current' # current) =>
             \/ /\ current' = nodes[current].prev
                /\ files[nodes[current].file_info].processed
                /\ last'.branch = "go_back"
             \/ /\ nodes'[current'].prev = current
                /\ ~files[nodes[current].file_info].processed]_vars
    /\ [][(Iteration /\ files[nodes[current].file_info].processed
                     /\ nodes[current].prev # 0) =>
             (current' = nodes[current].prev /\ pc' = "traverse" /\ files' = files)]_vars
    /\ [][(pc = "traverse" /\ pc' \notin {"traverse", "hang"}) =>
             /\ nodes[current].prev = 0
             /\ current = 1
             /\ files[nodes[current].file_info].processed
             /\ pc' = "done"
             /\ recursive_paths' = recursive_paths]_vars
    /\ [](pc = "traverse" => (current = 1 <=> nodes[current].prev = 0))

\* the traversal has just gone back from a processed node to its parent, whose file is
\* not processed yet
C22_Witness ==
    /\ pc = "traverse"
    /\ last.branch = "go_back"
    /\ ~files[nodes[current].file_info].processed
    /\ \E i \in 1..Len(nodes[current].children) :
          files[nodes[nodes[current].children[i]].file_info].processed

\* record f was there before the step and was processed
ProcessedBefore(f) == f <= Len(files) /\ files[f].processed

\* C23: the children of a node stand in the order of the include tokens that were
\* resolved; an iteration that descends or records a terminus acts on a child of the
\* current node whose file was not processed, and the file of every child before it in
\* the list was processed; an iteration that finds an unprocessed child acts on it.
C23_FirstUnprocessedChild ==
    /\ []((last.materialised /\ pc # "hang") =>
             [j \in 1..Len(nodes[MaterialisedNode].children) |->
                 nodes[nodes[MaterialisedNode].children[j]].file_info] = ResolvedOf(LastBatch))
    /\ [][(Iteration /\ last'.branch \in {"descend", "terminus"}) =>
             \E i \in 1..Len(nodes'[current].children) :
                /\ nodes'[current].children[i] = last'.child
                /\ ~ProcessedBefore(nodes'[last'.child].file_info)
                /\ \A j \in 1..(i - 1) :
                      ProcessedBefore(nodes'[nodes'[current].children[j]].file_info)]_vars
    /\ [][(Iteration /\ last'.branch = "exhausted") =>
             \A i \in 1..Len(nodes'[current].children) :
                ProcessedBefore(nodes'[nodes'[current].children[i]].file_info)]_vars

\* the last iteration acted on a child that is not the first of its parent, and the
\* parent has a third child after it
C23_Witness ==
    /\ pc = "traverse"
    /\ last.branch \in {"descend", "terminus"}
    /\ \E i \in 2..Len(nodes[nodes[last.child].prev].children) :
          /\ nodes[nodes[last.child].prev].children[i] = last.child
          /\ i < Len(nodes[nodes[last.child].prev].children)

\* the number of parent links from node n up to the root
RECURSIVE Depth(_)
Depth(n) == IF nodes[n].prev = 0 THEN 0 ELSE 1 + Depth(nodes[n].prev)

\* C24: the node_path of every node is the node_path of its parent followed by the file
\* of the node, the file alone for the root; it has depth + 1 elements and ends with the
\* file of the node; no step of the run changes the node_path, the file or the parent
\* of a node that exists, and no node is removed.
C24_NodePathShape ==
    /\ [](\A n \in 1..Len(nodes) :
             /\ nodes[n].prev < n
             /\ (nodes[n].prev = 0) <=> (n = 1)
             /\ nodes[n].node_path =
                   (IF nodes[n].prev = 0 THEN <<>> ELSE nodes[nodes[n].prev].node_path)
                       \o <<nodes[n].file_info>>
             /\ Len(nodes[n].node_path) = Depth(n) + 1
             /\ nodes[n].node_path[Len(nodes[n].node_path)] = nodes[n].file_info)
    /\ [][SameRun =>
             /\ Len(nodes') >= Len(nodes)
             /\ \A n \in 1..Len(nodes) :
                   /\ nodes'[n].node_path = nodes[n].node_path
                   /\ nodes'[n].file_info = nodes[n].file_info
                   /\ nodes'[n].prev = nodes[n].prev]_vars

\* the traversal has ended with a node three levels below the root
C24_Witness ==
    /\ pc = "done"
    /\ \E n \in 1..Len(nodes) :
          /\ Len(nodes[n].node_path) = 4
          /\ nodes[nodes[nodes[n].prev].prev].prev = 1

\* C25: create_node_children is called for the current node only, while its child list
\* is empty and its file is unprocessed; the call, when it returns, leaves the node
\* with children or, in the same iteration, with its file processed, so that it is not called for the node
\* again; a child list changes only from empty to the list the call assigns, and a
\* list that is not empty is never changed.  No file has more get_file calls made for
\* it than it has include tokens.
C25_ChildrenMaterialisedOnce ==
    /\ [][(Iteration /\ last'.materialised) =>
             /\ nodes[current].children = <<>>
             /\ ~files[nodes[current].file_info].processed
             /\ files[nodes[current].file_info].includes # <<>>
             /\ pc' # "hang" =>
                   /\ Len(calls') = Len(calls) + Len(files[nodes[current].file_info].includes)
                   /\ (nodes'[current].children # <<>>
                          \/ files'[nodes[current].file_info].processed)]_vars
    /\ [][SameRun =>
             \A n \in 1..Len(nodes) :
                nodes'[n].children # nodes[n].children =>
                   /\ nodes[n].children = <<>>
                   /\ n = current
                   /\ Iteration /\ last'.materialised]_vars
    /\ [][(SameRun /\ calls' # calls) => (Iteration /\ last'.materialised)]_vars
    /\ [](\A f \in 1..Len(files) :
             Cardinality({i \in 1..Len(calls) : calls[i].from = f}) <= Len(files[f].includes))

\* an iteration has found every child of the current node processed, on a child list
\* of two that an earlier iteration had materialised
C25_Witness ==
    /\ pc = "traverse"
    /\ last.branch = "exhausted"
    /\ ~last.materialised
    /\ Len(nodes[current].children) = 2
    /\ Cardinality({i \in 1..Len(calls) : calls[i].from = nodes[current].file_info}) = 2

\* the path get_file_in_module settles on for token t in module m: the first folder of
\* the module that holds the token, <<>> when none does
SettledPath(m, t) ==
    LET held == {d \in 1..Len(modules[m].include_paths) :
                    Exists(Fs, modules[m].include_paths[d] \o <<"/">> \o t)}
    IN  IF held = {} THEN <<>>
        ELSE modules[m].include_paths[CHOOSE d \in held : \A e \in held : d <= e]
                 \o <<"/">> \o t

\* the tokens the next materialisation will ask for
NextTokens ==
    IF pc = "traverse" THEN Range(files[nodes[current].file_info].includes) ELSE {}

\* C26: get_file_in_module, called in any state of the traversal for a token of the
\* current file, returns on a cache hit the record that holds the settled path and the
\* catalog as it was, processed flags included; on a miss of a file that can be parsed
\* it returns the catalog with one record more, unprocessed, for that path, and the
\* records that were there as they were.  Every call made so far returned no record, a
\* record that was there before the call, or the one record the call appended.
C26_CacheHitUnchanged ==
    /\ \A m \in 1..Len(modules) : \A t \in NextTokens :
          \A r \in {GetFileInModule(files, modules[m], t, modules, Fs)} :
             LET path == SettledPath(m, t)
                 cached == {f \in 1..Len(files) : files[f].abs_path = path}
             IN  /\ (path # <<>> /\ cached # {}) =>
                       (r.ok /\ r.files = files /\ r.file \in cached)
                 /\ (path # <<>> /\ cached = {} /\ r.ok) =>
                       /\ Len(r.files) = Len(files) + 1
                       /\ r.file = Len(files) + 1
                       /\ SubSeq(r.files, 1, Len(files)) = files
                       /\ r.files[r.file].abs_path = path
                       /\ ~r.files[r.file].processed
                 /\ (path = <<>> \/ ~r.ok) => (r.files = files /\ r.file = 0)
    /\ \A i \in 1..Len(calls) :
          calls[i].file \in 0..(calls[i].before + 1)
    /\ nodes # <<>> =>
          Len(files) = 1 + Cardinality({i \in 1..Len(calls) : calls[i].file = calls[i].before + 1})

\* the current node is about to be materialised and one of its tokens settles on a
\* record of the cache that is processed already
C26_Witness ==
    /\ pc = "traverse"
    /\ ~CurrentProcessed
    /\ nodes[current].children = <<>>
    /\ \E m \in 1..Len(modules) : \E t \in NextTokens :
          \E f \in 1..Len(files) :
             /\ files[f].abs_path = SettledPath(m, t)
             /\ files[f].processed
             /\ files[f].includes # <<>>

\* C27: no step of the run removes a key or a path from the report; the report changes only in
\* an iteration of the loop that takes the terminus branch, and by one path there; what
\* traverse returns is the report as the last terminus left it.
C27_ReportMonotonic ==
    /\ [][SameRun =>
             \A k \in DOMAIN recursive_paths :
                /\ k \in DOMAIN recursive_paths'
                /\ recursive_paths[k] \subseteq recursive_paths'[k]]_vars
    /\ [][(SameRun /\ recursive_paths' # recursive_paths) =>
             /\ Iteration
             /\ last'.branch = "terminus"
             /\ \E k \in DOMAIN recursive_paths' : \E q \in recursive_paths'[k] :
                   OnlyAdded(k, q)]_vars
    /\ [][(SameRun /\ pc # "traverse") => recursive_paths' = recursive_paths]_vars

\* traverse has returned a report in which one key has two paths and which a second
\* terminus extended
C27_Witness ==
    /\ pc = "done"
    /\ \E k \in DOMAIN recursive_paths : Cardinality(recursive_paths[k]) = 2

(***************************************************************************)
(* The module index against the descriptor                                 *)
(***************************************************************************)

\* the folder a line of the secondary descriptor names: the line without blanks, tabs
\* and quotes
FolderOfLine(line) ==
    LET Kept(c) == c \notin {" ", "\t", "\"", "\n"}
    IN  SelectSeq(line, Kept)

\* the lines of the secondary descriptor that are candidates and are retained
RetainedLines ==
    IF INCLUDES_FILE \notin DOMAIN Fs THEN {}
    ELSE {i \in 1..Len(Fs[INCLUDES_FILE]) :
             /\ \E k \in 1..Len(Fs[INCLUDES_FILE][i]) : Fs[INCLUDES_FILE][i][k] = "\""
             /\ ~Contains(FolderOfLine(Fs[INCLUDES_FILE][i]), STR_INTERMEDIATE)}

\* s without the suffix, when it ends with it
WithoutSuffix(s, suffix) ==
    IF Len(s) >= Len(suffix) /\ SubSeq(s, Len(s) - Len(suffix) + 1, Len(s)) = suffix
    THEN SubSeq(s, 1, Len(s) - Len(suffix))
    ELSE s

\* the module name of a folder that holds the anchor: the text from the last anchor
\* on, without a trailing /Public or /Private
NameOfFolder(folder) ==
    LET at == {i \in 1..Len(folder) : StartsAt(folder, STR_ENGINE, i)}
        from == CHOOSE i \in at : \A j \in at : j <= i
        suffix == SubSeq(folder, from, Len(folder))
    IN  IF WithoutSuffix(suffix, STR_PUBLIC) # suffix THEN WithoutSuffix(suffix, STR_PUBLIC)
        ELSE WithoutSuffix(suffix, STR_PRIVATE)

\* C28: when Project::create has returned the index, every retained line of the
\* secondary descriptor has its folder listed under the module named by the text from
\* the last anchor on, a trailing /Public or /Private taken off and nothing else; every
\* folder of the index comes from such a line; no folder of the index holds
\* "Intermediate"; and a retained folder without the anchor means that no index was
\* built and the run ended with the error.
C28_ModuleNameDerivation ==
    /\ (AfterProjectCreate /\ modules # <<>>) =>
          /\ \A i \in RetainedLines :
                LET folder == FolderOfLine(Fs[INCLUDES_FILE][i])
                IN  \E m \in 1..Len(modules) :
                       /\ modules[m].name = NameOfFolder(folder)
                       /\ folder \in Range(modules[m].include_paths)
          /\ \A m \in 1..Len(modules) : \A folder \in Range(modules[m].include_paths) :
                /\ ~Contains(folder, STR_INTERMEDIATE)
                /\ modules[m].name = NameOfFolder(folder)
                /\ \E i \in RetainedLines : folder = FolderOfLine(Fs[INCLUDES_FILE][i])
    /\ (AfterProjectCreate /\ AnchorMissing) =>
          (modules = <<>> /\ pc = "error" /\ err = "anchor")

(***************************************************************************)
(* The records against the files they were parsed from                     *)
(***************************************************************************)

\* the last field of a line whose fields are separated by blanks or tabs: the longest
\* run without blank or tab that ends at the last such character of the line
LastField(line) ==
    LET solid == {i \in 1..Len(line) : line[i] \notin {" ", "\t"}}
    IN  IF solid = {} THEN <<>>
        ELSE LET e == CHOOSE i \in solid : \A j \in solid : j <= i
                 starts == {i \in 1..e : \A j \in i..e : j \in solid}
             IN  SubSeq(line, CHOOSE i \in starts : \A j \in starts : i <= j, e)

\* s without its double quotes
Unquoted(s) ==
    LET NoQuote(c) == c # "\""
    IN  SelectSeq(s, NoQuote)

\* C29: the includes of every record are, in line order, the last fields of the lines
\* of its file that hold "#include" and name no generated header, the fields being
\* separated by blanks or tabs, with the double quotes removed.
C29_TokenIsLastField ==
    \A f \in 1..Len(files) :
        LET kept == SelectSeq(ReadLines(Fs, files[f].abs_path), Qualifies)
        IN  /\ Len(files[f].includes) = Len(kept)
            /\ \A k \in 1..Len(kept) : files[f].includes[k] = Unquoted(LastField(kept[k]))

\* the file name of a path: the text after its last "/"
NameOfPath(path) ==
    LET at == {i \in 1..Len(path) : path[i] = "/"}
    IN  IF at = {} THEN path
        ELSE SubSeq(path, (CHOOSE i \in at : \A j \in at : j <= i) + 1, Len(path))

\* the extension of a file name: <<text>> after its last ".", <<>> when it has no "."
ExtensionOf(name) ==
    LET at == {i \in 1..Len(name) : name[i] = "."}
    IN  IF at = {} THEN <<>>
        ELSE <<SubSeq(name, (CHOOSE i \in at : \A j \in at : j <= i) + 1, Len(name))>>

\* the kind of a file with that extension, "none" for every other and for no extension
KindOf(ext) ==
    IF ext = <<>> THEN "none"
    ELSE IF ext[1] \in {<<"h">>, <<"h","p","p">>} THEN "Header"
    ELSE IF ext[1] \in {<<"c">>, <<"c","p","p">>} THEN "Source"
    ELSE IF ext[1] = <<"i","n","l">> THEN "Inline"
    ELSE "none"

\* C30: every record has the kind of the extension of its file name, so that no record
\* exists for a file with another extension or with no "." in its name; an entry file
\* without a kind ends the run with the error and no record, and a get_file call never
\* returns a record for a token without a kind.
C30_KindByExtension ==
    /\ \A f \in 1..Len(files) :
          /\ KindOf(ExtensionOf(NameOfPath(files[f].abs_path))) # "none"
          /\ files[f].file_type = KindOf(ExtensionOf(NameOfPath(files[f].abs_path)))
    /\ (/\ AfterCreateEntry
        /\ modules # <<>>
        /\ Opens(Fs, EntryPoint)
        /\ KindOf(ExtensionOf(NameOfPath(EntryPoint))) = "none") =>
          (pc = "error" /\ err = "type" /\ files = <<>>)
    /\ \A i \in 1..Len(calls) :
          KindOf(ExtensionOf(NameOfPath(calls[i].partial_path))) = "none" => calls[i].file = 0

(***************************************************************************)
(* The graph of resolved includes, read off the disk and the module index  *)
(***************************************************************************)

\* the files the tokens of the file at `path` are resolved to: for each token what
\* get_file returns for it from the module of the file, whatever the catalog holds
DiskSucc(path) ==
    CHOOSE out \in
        {IF ~r.ok THEN {}
         ELSE {g.files[1].abs_path :
                 g \in {h \in {GetFile(<<>>, r.info.includes[k], r.info.module, modules, Fs) :
                                  k \in 1..Len(r.info.includes)} : h.ok}} :
            r \in {FileInfoCreate(path, modules, Fs)}} : TRUE

\* the files one include away from a file of S
DiskSuccs(S) == UNION {DiskSucc(p) : p \in S}

\* the files reachable from those of `frontier`, which are in `seen` with the files
\* found before them
RECURSIVE DiskReach(_, _)
DiskReach(seen, frontier) ==
    IF frontier = {} THEN seen
    ELSE CHOOSE out \in {DiskReach(seen \cup next, next \ seen) :
                            next \in {DiskSuccs(frontier)}} : TRUE

\* the includes between the files of S, as pairs
DiskEdges(S) == UNION {{<<p, q>> : q \in DiskSucc(p)} : p \in S}

\* S and the files reachable from it along the edges of E
RECURSIVE EdgeReach(_, _)
EdgeReach(E, S) ==
    LET next == {e[2] : e \in {d \in E : d[1] \in S}}
    IN  IF next \subseteq S THEN S ELSE EdgeReach(E, S \cup next)

\* a file reachable from the entry file reaches itself through one include or more
CycleReachable ==
    \E E \in {DiskEdges(DiskReach({model.entry_point[1]}, {model.entry_point[1]}))} :
        \E e \in E : e[1] \in EdgeReach(E, {e[2]})

\* C31: when traverse returns, the report is empty exactly when no file reachable from
\* the entry file through resolved includes reaches itself; a reachable cycle gives a
\* report with one entry or more.
C31_EmptyIffAcyclic ==
    pc = "done" =>
        /\ (recursive_paths = <<>>) <=> ~CycleReachable
        /\ CycleReachable =>
              \E k \in DOMAIN recursive_paths : recursive_paths[k] # {}

\* traverse has returned a report on a project of three files or more in which the
\* entry file is on no cycle
C31_Witness ==
    /\ pc = "done"
    /\ recursive_paths # <<>>
    /\ Len(files) >= 3
    /\ model.entry_point[1] \notin DiskReach(DiskSucc(model.entry_point[1]),
                                         DiskSucc(model.entry_point[1]))

\* the node_path of node n is an include chain that closes on its last element: each
\* file after the first is what a get_file call for a token of the file before it
\* returned, the last file is one of the files before it, once, and the files before
\* the last differ from one another in their absolute paths
ClosedChain(n) ==
    LET np == nodes[n].node_path
        abs(i) == files[np[i]].abs_path
    IN  /\ Len(np) >= 2
        /\ \A i \in 1..(Len(np) - 1) :
              \E c \in 1..Len(calls) :
                 /\ calls[c].from = np[i]
                 /\ calls[c].file = np[i + 1]
                 /\ calls[c].partial_path \in Range(files[np[i]].includes)
                 /\ calls[c].entry_module = files[np[i]].module
        /\ Cardinality({j \in 1..(Len(np) - 1) : abs(j) = abs(Len(np))}) = 1
        /\ \A i, j \in 1..(Len(np) - 1) : abs(i) = abs(j) => i = j

\* C32: every path of the report is the list of file names along the node_path of a
\* node that is a closed include chain, and the node the last terminus iteration acted
\* on is such a node.
C32_ReportedPathsAreChains ==
    /\ \A k \in DOMAIN recursive_paths : \A p \in recursive_paths[k] :
          \E n \in 1..Len(nodes) : NamesAlong(n) = p /\ ClosedChain(n)
    /\ (pc = "traverse" /\ last.branch = "terminus") =>
          (ClosedChain(last.child) /\ NamesAlong(last.child) \in
               recursive_paths[NamesAlong(last.child)[Len(NamesAlong(last.child))]])

\* the report holds a path of four names that closes on its second file
C32_Witness ==
    /\ pc = "done"
    /\ \E k \in DOMAIN recursive_paths : \E p \in recursive_paths[k] :
          \E n \in 1..Len(nodes) :
             /\ NamesAlong(n) = p
             /\ Len(p) = 4
             /\ nodes[n].node_path[4] = nodes[n].node_path[2]

\* C33: the node_path of the current node holds no absolute path twice, and the depth
\* of the current node is smaller than the number of distinct files of the catalog.
C33_CurrentPathSimple ==
    current # 0 =>
        /\ ~RepeatsAFile(current)
        /\ \A i, j \in 1..Len(nodes[current].node_path) :
              nodes[current].node_path[i] = nodes[current].node_path[j] => i = j
        /\ Depth(current) < Cardinality({files[f].abs_path : f \in 1..Len(files)})

\* the current node is two levels below the root and has a child whose path repeats a
\* file, which the traversal has recorded and not entered
C33_Witness ==
    /\ pc = "traverse"
    /\ Depth(current) = 2
    /\ last.branch = "terminus"
    /\ nodes[last.child].prev = current
    /\ RepeatsAFile(last.child)

\* the number of paths under the keys of S
RECURSIVE PathCount(_)
PathCount(S) ==
    IF S = {} THEN 0
    ELSE LET k == CHOOSE x \in S : TRUE
         IN  Cardinality(recursive_paths[k]) + PathCount(S \ {k})

\* C34: a terminus iteration acts on a child whose file was not processed and leaves
\* it processed, and no step of the run takes a processed flag back, so that a file is the
\* terminus of one iteration at most; the report never holds more paths than the
\* catalog holds processed files, and a key with more than one path is the name of two
\* files or more.
C34_TerminusOncePerFile ==
    /\ [][(Iteration /\ last'.branch = "terminus") =>
             /\ ~ProcessedBefore(nodes'[last'.child].file_info)
             /\ files'[nodes'[last'.child].file_info].processed
             /\ PathCount(DOMAIN recursive_paths) < Len(files)]_vars
    /\ [][SameRun => \A f \in 1..Len(files) : files[f].processed => files'[f].processed]_vars
    /\ [](PathCount(DOMAIN recursive_paths)
              <= Cardinality({f \in 1..Len(files) : files[f].processed}))
    /\ [](\A k \in DOMAIN recursive_paths :
             Cardinality(recursive_paths[k]) > 1 =>
                \E f, g \in 1..Len(files) :
                   /\ files[f].abs_path # files[g].abs_path
                   /\ files[f].file_name = k
                   /\ files[g].file_name = k)

\* traverse has returned a report of two paths under the name of two processed files
C34_Witness ==
    /\ pc = "done"
    /\ PathCount(DOMAIN recursive_paths) = 2
    /\ \E k \in DOMAIN recursive_paths :
          /\ Cardinality(recursive_paths[k]) = 2
          /\ Cardinality({f \in 1..Len(files) : files[f].file_name = k /\ files[f].processed}) = 2

\* the get_file calls made for tokens of a record with absolute path p
CallsFor(p) == {i \in 1..Len(calls) : files[calls[i].from].abs_path = p}

\* the nodes of a file with absolute path p that have children
ParentsOf(p) ==
    {n \in 1..Len(nodes) : files[nodes[n].file_info].abs_path = p /\ nodes[n].children # <<>>}

\* C35: a node becomes current only while its file is unprocessed, no get_file call
\* was made for a token of the file and no other node of the file has children; an
\* iteration materialises children only for a file no call was made for; hence, of
\* the nodes of one file, one at most has children, and the calls made for a file are
\* one call per include token, made in one iteration (fewer when a call of that
\* iteration does not return).
C35_OneNodePerFileExpanded ==
    /\ [][(Iteration /\ last'.branch = "descend") =>
             LET p == files'[nodes'[current'].file_info].abs_path
             IN  /\ current' = last'.child
                 /\ ~files'[nodes'[current'].file_info].processed
                 /\ \A i \in 1..Len(calls') : files'[calls'[i].from].abs_path # p
                 /\ \A n \in 1..Len(nodes') :
                       files'[nodes'[n].file_info].abs_path = p => nodes'[n].children = <<>>]_vars
    /\ [][(Iteration /\ last'.materialised) =>
             CallsFor(files[nodes[current].file_info].abs_path) = {}]_vars
    /\ [](\A f \in 1..Len(files) :
             /\ Cardinality(ParentsOf(files[f].abs_path)) <= 1
             /\ CallsFor(files[f].abs_path) # {} =>
                   /\ Cardinality(CallsFor(files[f].abs_path)) <= Len(files[f].includes)
                   /\ pc # "hang" =>
                         Cardinality(CallsFor(files[f].abs_path)) = Len(files[f].includes)
                   /\ \A i, j \in CallsFor(files[f].abs_path) :
                         \A k \in 1..Len(calls) : (i <= k /\ k <= j) =>
                             k \in CallsFor(files[f].abs_path))

\* the traversal has ended on a tree with two nodes of one file that has includes: one
\* of them has children, the other was never entered
C35_Witness ==
    /\ pc = "done"
    /\ \E n, m \in 1..Len(nodes) :
          /\ n # m
          /\ nodes[n].file_info = nodes[m].file_info
          /\ files[nodes[n].file_info].includes # <<>>
          /\ nodes[n].children # <<>>
          /\ nodes[m].children = <<>>
          /\ \A i, j \in 1..Len(nodes[m].node_path) :
                nodes[m].node_path[i] = nodes[m].node_path[j] => i = j

====
